---- MODULE Spec2Model ----
(***************************************************************************)
(* Stream-lifecycle engine of strumbot: the per-channel StreamWatcher       *)
(* state machine (src/src/watcher.rs), the actor that owns it and the       *)
(* dispatcher poll loop (src/strumbot/src/main.rs), with the file store     *)
(* used to resume watchers (src/database-api/src/file.rs).                  *)
(*                                                                         *)
(* Time is counted in seconds.  Timestamp::now(), DateTime::utc_now() and   *)
(* Instant::now() all read the one clock `now`.  Every step takes a        *)
(* positive but sub-second amount of real time, so a step that happens at   *)
(* the same clock reading as an earlier one is strictly later than it.      *)
(***************************************************************************)
EXTENDS Integers, Sequences, FiniteSets, TLC

(***************************************************************************)
(* Bounds of the model                                                      *)
(***************************************************************************)
\* number of poll intervals explored after the process has booted
MaxPolls == 6
\* number of polls after which a short-lived token comes up for refresh
EarlyPolls == 3
\* number of category lookups the cache is followed through
MaxLookups == 3
\* number of times the dispatcher's sleep ends while tasks may lag behind
LagPolls == 2
\* number of Segments of the long session a previous run left in the store
SeedSegs == 50
\* number of store operations that fail
MaxIoFailures == 1
\* number of write calls fs::write needs to put a document on disk
DocChunks == 2
\* number of saves FileDatabase is followed through
MaxSaves == 2
\* number of <number><unit> tokens of a duration string
MaxTokens == 2
\* largest number of Segments of a session whose recording index is built
IndexSegs == 50
\* polls at the start of a run in which the channel may be reported live
LivePolls == 2
\* polls that follow them, in all of which the channel is reported offline
QuietPolls == 18

(***************************************************************************)
(* Program constants                                                        *)
(***************************************************************************)
\* sleep(Duration::from_secs(10)) of the poll loop
PollInterval == 10
\* next_update = Instant::now() + Duration::from_secs(60)
Cooldown == 60
\* refresh_auth: expires_at < Instant::now() + Duration::from_secs(600)
RefreshWindow == 600
\* expires_in of a token as Twitch issues it, in seconds
LongLived == 5011271
\* OauthClient::MIN_BACKOFF and MAX_BACKOFF, in seconds
MIN_BACKOFF == 1
MAX_BACKOFF == 16
\* for _ in 0..10
MaxAttempts == 10
\* the sleep after a 429 that names no usable delay
RateLimitSleep == 10
\* LruCache::new(100)
CacheCapacity == 100
\* mpsc::channel(2)
QueueCapacity == 2
\* default_grace_period()
DefaultGracePeriod == 2
\* current.len() + stamp.len() > 1000
ChunkLimit == 1000
\* index.len() == 3
MaxFullChunks == 3
\* VideoDuration(pub u32): a u32 is hi * U16 + lo with hi and lo below U16
U16 == 65536

(***************************************************************************)
(* Data                                                                     *)
(***************************************************************************)
Logins == {"alice"}
\* config.twitch.user_login -> key of the watcher map and of the store
to_lowercase(name) ==
    IF name = "Alice" THEN "alice" ELSE IF name = "Bob" THEN "bob" ELSE name
UserIdOf(login) == "1001"

\* Option<T>: None is the empty set, Some(x) the singleton
None == {}
Some(x) == {x}
Unwrap(o) == CHOOSE x \in o : TRUE

\* Game::empty(): the shared "no category" sentinel
EmptyGame == [id |-> "", name |-> "No Category"]

\* the game the upstream returns for a category id
GameOf(id) ==
    IF id = "512710" THEN [id |-> id, name |-> "Just Chatting"]
    ELSE [id |-> id, name |-> "Just Dancing"]

\* the clock when the process boots and when the last poll is made, and the
\* time each of the broadcasts 999 and 1000 started
BootTime == Cooldown * SeedSegs
MaxTime == BootTime + PollInterval * MaxPolls
StartedAt(id) == IF id = "999" THEN 0 ELSE BootTime

\* what the channel is seen doing: broadcast id and category id
Snapshots == {<<"999", "509658">>, <<"999", "512710">>, <<"1000", "509658">>, <<"1000", "">>}

\* id of the archive recording get_video_by_stream finds for a broadcast;
\* broadcast 1000 has none (the lookup fails)
VideoIdOf(id) == IF id = "999" THEN "1700000001" ELSE ""

\* one poll's view of a live channel
Stream(login, id, game_id) ==
    [id |-> id, game_id |-> game_id, user_id |-> UserIdOf(login),
     user_login |-> login, user_name |-> login, started_at |-> StartedAt(id)]
NoStream ==
    [id |-> "", game_id |-> "", user_id |-> "", user_login |-> "",
     user_name |-> "", started_at |-> 0]

\* RequestError kinds an upstream call can end with
GameOutcomes == {"Found", "NotFound", "Deserialize", "Timeout", "Http"}
ClipOutcomes == {"Ok", "Timeout", "Http", "Deserialize"}
\* the upstream's answers to the requests of one update call
Nets == [game : GameOutcomes, clips : ClipOutcomes]

EventNames == {"live", "update", "vod"}
\* the configurations the process is started with
Configs ==
    [offline_grace_period : {0, DefaultGracePeriod},
     top_clips : {0, 5},
     enabled_events : {EventNames, {}},
     cache_enabled : {TRUE}]
    \cup {[offline_grace_period |-> DefaultGracePeriod, top_clips |-> 0,
           enabled_events |-> EventNames, cache_enabled |-> FALSE]}

(***************************************************************************)
(* Formatting                                                               *)
(***************************************************************************)
Digit(d) == <<"0", "1", "2", "3", "4", "5", "6", "7", "8", "9">>[d + 1]
\* {n:02} for n < 100
Fmt02(n) == Digit(n \div 10) \o Digit(n % 10)

split_duration(secs) ==
    [hour |-> (secs \div 3600) % 60, min |-> (secs \div 60) % 60, sec |-> secs % 60]

video_url(seg) == "https://www.twitch.tv/videos/" \o seg.video_id

\* the backquote of the monospace markup is written ' (one byte as well)
vod_link(seg) ==
    LET t == split_duration(seg.position)
        display == "'" \o Fmt02(t.hour) \o ":" \o Fmt02(t.min) \o ":" \o Fmt02(t.sec) \o "'"
        query == Fmt02(t.hour) \o "h" \o Fmt02(t.min) \o "m" \o Fmt02(t.sec) \o "s"
    IN  IF seg.video_id = "" THEN display
        ELSE "[" \o display \o "](" \o video_url(seg) \o "?t=" \o query \o ")"

\* one line of the timestamp index
Stamp(seg) == vod_link(seg) \o " " \o seg.game.name

\* variant of the chunking loop that opens a fifth chunk and further ones
RECURSIVE chunk_loop_uncapped(_, _, _)
chunk_loop_uncapped(stamps, index, current) ==
    IF stamps = <<>> THEN Append(index, current)
    ELSE LET stamp == Head(stamps)
         IN  IF Len(current) + Len(stamp) > ChunkLimit
             THEN chunk_loop_uncapped(Tail(stamps), Append(index, current), stamp \o "\n")
             ELSE chunk_loop_uncapped(Tail(stamps), index, current \o stamp \o "\n")

\* the chunking loop over the stamps: index holds the finished chunks,
\* current the chunk being filled
RECURSIVE chunk_loop(_, _, _)
chunk_loop(stamps, index, current) ==
    IF stamps = <<>> THEN Append(index, current)
    ELSE LET stamp == Head(stamps)
         IN  IF Len(current) + Len(stamp) > ChunkLimit
             THEN IF Len(index) = MaxFullChunks
                  THEN Append(index, current \o "...")
                  ELSE chunk_loop(Tail(stamps), Append(index, current), stamp \o "\n")
             ELSE chunk_loop(Tail(stamps), index, current \o stamp \o "\n")

\* variant of the index that lists the Segments latest first
timestamp_index_latest_first(segments) ==
    chunk_loop([i \in 1..Len(segments) |-> Stamp(segments[Len(segments) + 1 - i])], <<>>, "")

\* the "Timestamps" fields on_offline builds from the Segments
timestamp_index(segments) ==
    chunk_loop([i \in 1..Len(segments) |-> Stamp(segments[i])], <<>>, "")

(***************************************************************************)
(* StreamWatcher (src/src/watcher.rs)                                       *)
(***************************************************************************)
\* variant of the constructor that starts the grace period at once
StreamWatcher_new_in_grace(user_name, t) ==
    [user_name |-> user_name, user_id |-> "", stream_id |-> "",
     segments |-> <<>>, start_timestamp |-> t, offline_timestamp |-> Some(t)]

\* StreamWatcher::new
StreamWatcher_new(user_name, t) ==
    [user_name |-> user_name, user_id |-> "", stream_id |-> "",
     segments |-> <<>>, start_timestamp |-> t, offline_timestamp |-> None]

\* TwitchClient::get_game_by_id as seen by the watcher: the empty id is
\* answered with the sentinel, any other id by the upstream's answer.  The
\* client's cache of found games is not represented: a lookup may get any
\* answer each time it is made
get_game(stream, net) ==
    IF stream.game_id = "" THEN [ok |-> TRUE, game |-> EmptyGame, err |-> "", asked |-> "NoLookup"]
    ELSE IF net.game = "Found"
         THEN [ok |-> TRUE, game |-> GameOf(stream.game_id), err |-> "", asked |-> net.game]
         ELSE [ok |-> FALSE, game |-> EmptyGame, err |-> net.game, asked |-> net.game]

\* StreamSegment::from: a failed recording lookup leaves the id empty
StreamSegment_from(stream, game, t) ==
    [game |-> game,
     position |-> t - stream.started_at,
     video_id |-> VideoIdOf(stream.id)]

\* variant of add_segment that degrades NotFound only and propagates a
\* Deserialize error
add_segment_strict(w, stream, net, t) ==
    LET r == get_game(stream, net)
        degraded == r.err \in {"NotFound"}
        game == IF r.ok THEN r.game ELSE EmptyGame
    IN  IF ~r.ok /\ ~degraded
        THEN [ok |-> FALSE, err |-> r.err, w |-> w, asked |-> r.asked]
        ELSE [ok |-> TRUE, err |-> "",
              w |-> [w EXCEPT !.segments = Append(@, StreamSegment_from(stream, game, t))],
              asked |-> r.asked]

\* StreamWatcher::add_segment
add_segment(w, stream, net, t) ==
    LET r == get_game(stream, net)
        degraded == r.err \in {"Deserialize", "NotFound"}
        game == IF r.ok THEN r.game ELSE EmptyGame
    IN  IF ~r.ok /\ ~degraded
        THEN [ok |-> FALSE, err |-> r.err, w |-> w, asked |-> r.asked]
        ELSE [ok |-> TRUE, err |-> "",
              w |-> [w EXCEPT !.segments = Append(@, StreamSegment_from(stream, game, t))],
              asked |-> r.asked]

\* variant of is_skipped for which every event type counts as enabled
is_skipped_never(cfg, event) == FALSE

is_skipped(cfg, event) == event \notin cfg.enabled_events

\* a message handed to the webhook: its event type, the category named in
\* its content and the "Timestamps" fields of its embed
Notification(event, game, index) == [event |-> event, game |-> game, index |-> index]

\* variant of the assignment to segment.position that leaves the offset the
\* Segment was built with
SetLastPosition_kept(w, p) == w

\* segment.position = p on the Segment add_segment returned
SetLastPosition(w, p) ==
    [w EXCEPT !.segments = [@ EXCEPT ![Len(@)] = [@ EXCEPT !.position = p]]]

\* variant of on_go_live that does not take the session start from the
\* snapshot
on_go_live_stale_start(w, cfg, stream, net, t) ==
    LET w1 == [w EXCEPT !.offline_timestamp = None,
                        !.user_id = stream.user_id,
                        !.stream_id = stream.id]
        r == add_segment(w1, stream, net, t)
        w2 == SetLastPosition(r.w, 0)
        game == w2.segments[Len(w2.segments)].game
    IN  IF ~r.ok
        THEN [w |-> w1, ok |-> FALSE, err |-> r.err, notes |-> <<>>, asked |-> r.asked,
              calls |-> {"get_game_by_id"}]
        ELSE [w |-> w2, ok |-> TRUE, err |-> "",
              notes |-> IF is_skipped(cfg, "live") THEN <<>>
                        ELSE <<Notification("live", game, <<>>)>>,
              asked |-> r.asked, calls |-> {"get_game_by_id", "get_video_by_stream"}]

\* StreamWatcher::on_go_live
on_go_live(w, cfg, stream, net, t) ==
    LET w1 == [w EXCEPT !.offline_timestamp = None,
                        !.start_timestamp = stream.started_at,
                        !.user_id = stream.user_id,
                        !.stream_id = stream.id]
        r == add_segment(w1, stream, net, t)
        w2 == SetLastPosition(r.w, 0)
        game == w2.segments[Len(w2.segments)].game
    IN  IF ~r.ok
        THEN [w |-> w1, ok |-> FALSE, err |-> r.err, notes |-> <<>>, asked |-> r.asked,
              calls |-> {"get_game_by_id"}]
        ELSE [w |-> w2, ok |-> TRUE, err |-> "",
              notes |-> IF is_skipped(cfg, "live") THEN <<>>
                        ELSE <<Notification("live", game, <<>>)>>,
              asked |-> r.asked, calls |-> {"get_game_by_id", "get_video_by_stream"}]

\* variant of on_update that announces a category change only when the
\* broadcast id stayed the same
on_update_quiet_on_vod_change(w, cfg, stream, net, t) ==
    LET w1 == [w EXCEPT !.offline_timestamp = None]
        old_game == w.segments[Len(w.segments)].game
        vod_change == stream.id # w.stream_id
        game_change == stream.game_id # old_game.id
        r == add_segment(w1, stream, net, t)
        w2 == IF vod_change
              THEN [SetLastPosition(r.w, 0) EXCEPT !.stream_id = stream.id]
              ELSE r.w
        game == w2.segments[Len(w2.segments)].game
    IN  IF ~(vod_change \/ game_change)
        THEN [w |-> w1, ok |-> TRUE, changed |-> FALSE, err |-> "", notes |-> <<>>,
              asked |-> "NoLookup", calls |-> {}]
        ELSE IF ~r.ok
        THEN [w |-> w1, ok |-> FALSE, changed |-> FALSE, err |-> r.err, notes |-> <<>>,
              asked |-> r.asked, calls |-> {"get_game_by_id"}]
        ELSE [w |-> w2, ok |-> TRUE, changed |-> TRUE, err |-> "",
              notes |-> IF ~game_change \/ vod_change \/ is_skipped(cfg, "update") THEN <<>>
                        ELSE <<Notification("update", game, <<>>)>>,
              asked |-> r.asked, calls |-> {"get_game_by_id", "get_video_by_stream"}]

\* StreamWatcher::on_update; changed is the bool it returns
on_update(w, cfg, stream, net, t) ==
    LET w1 == [w EXCEPT !.offline_timestamp = None]
        old_game == w.segments[Len(w.segments)].game
        vod_change == stream.id # w.stream_id
        game_change == stream.game_id # old_game.id
        r == add_segment(w1, stream, net, t)
        w2 == IF vod_change
              THEN [SetLastPosition(r.w, 0) EXCEPT !.stream_id = stream.id]
              ELSE r.w
        game == w2.segments[Len(w2.segments)].game
    IN  IF ~(vod_change \/ game_change)
        THEN [w |-> w1, ok |-> TRUE, changed |-> FALSE, err |-> "", notes |-> <<>>,
              asked |-> "NoLookup", calls |-> {}]
        ELSE IF ~r.ok
        THEN [w |-> w1, ok |-> FALSE, changed |-> FALSE, err |-> r.err, notes |-> <<>>,
              asked |-> r.asked, calls |-> {"get_game_by_id"}]
        ELSE [w |-> w2, ok |-> TRUE, changed |-> TRUE, err |-> "",
              notes |-> IF ~game_change \/ is_skipped(cfg, "update") THEN <<>>
                        ELSE <<Notification("update", game, <<>>)>>,
              asked |-> r.asked, calls |-> {"get_game_by_id", "get_video_by_stream"}]

\* u8::clamp(0, 5)
clamp(n, lo, hi) == IF n < lo THEN lo ELSE IF n > hi THEN hi ELSE n

\* variant of on_offline that adds the grace period to the clock as seconds
on_offline_minutes_as_seconds(w, cfg, net, t) ==
    LET offset == cfg.offline_grace_period
        cleared == [w EXCEPT !.segments = <<>>, !.offline_timestamp = None]
        num == clamp(cfg.top_clips, 0, 5)
    IN  IF w.offline_timestamp = None
        THEN [w |-> [w EXCEPT !.offline_timestamp = Some(t + offset)],
              ok |-> TRUE, ended |-> FALSE, err |-> "", notes |-> <<>>, calls |-> {}]
        ELSE IF Unwrap(w.offline_timestamp) > t
        THEN [w |-> w, ok |-> TRUE, ended |-> FALSE, err |-> "", notes |-> <<>>, calls |-> {}]
        ELSE IF is_skipped(cfg, "vod")
        THEN [w |-> cleared, ok |-> TRUE, ended |-> TRUE, err |-> "", notes |-> <<>>,
              calls |-> {}]
        ELSE IF num > 0 /\ net.clips # "Ok"
        THEN [w |-> cleared, ok |-> FALSE, ended |-> FALSE, err |-> net.clips,
              notes |-> <<>>,
              calls |-> {"get_videos", "get_top_clips"}
                        \cup (IF w.segments[1].video_id = "" THEN {} ELSE {"get_video_by_id"})]
        ELSE [w |-> cleared, ok |-> TRUE, ended |-> TRUE, err |-> "",
              notes |-> <<Notification("vod", EmptyGame, timestamp_index(w.segments))>>,
              calls |-> {"get_videos"}
                        \cup (IF w.segments[1].video_id = "" THEN {} ELSE {"get_video_by_id"})
                        \cup (IF num > 0 THEN {"get_top_clips"} ELSE {})]

\* variant of on_offline that, without a grace period, ends the session at
\* the first Observed-Offline
on_offline_ending_at_once(w, cfg, net, t) ==
    LET offset == 60 * cfg.offline_grace_period
        cleared == [w EXCEPT !.segments = <<>>, !.offline_timestamp = None]
        num == clamp(cfg.top_clips, 0, 5)
    IN  IF w.offline_timestamp = None /\ offset > 0
        THEN [w |-> [w EXCEPT !.offline_timestamp = Some(t + offset)],
              ok |-> TRUE, ended |-> FALSE, err |-> "", notes |-> <<>>, calls |-> {}]
        ELSE IF w.offline_timestamp # None /\ Unwrap(w.offline_timestamp) > t
        THEN [w |-> w, ok |-> TRUE, ended |-> FALSE, err |-> "", notes |-> <<>>, calls |-> {}]
        ELSE IF is_skipped(cfg, "vod")
        THEN [w |-> cleared, ok |-> TRUE, ended |-> TRUE, err |-> "", notes |-> <<>>,
              calls |-> {}]
        ELSE IF num > 0 /\ net.clips # "Ok"
        THEN [w |-> cleared, ok |-> FALSE, ended |-> FALSE, err |-> net.clips,
              notes |-> <<>>,
              calls |-> {"get_videos", "get_top_clips"}
                        \cup (IF w.segments[1].video_id = "" THEN {} ELSE {"get_video_by_id"})]
        ELSE [w |-> cleared, ok |-> TRUE, ended |-> TRUE, err |-> "",
              notes |-> <<Notification("vod", EmptyGame, timestamp_index(w.segments))>>,
              calls |-> {"get_videos"}
                        \cup (IF w.segments[1].video_id = "" THEN {} ELSE {"get_video_by_id"})
                        \cup (IF num > 0 THEN {"get_top_clips"} ELSE {})]

\* StreamWatcher::on_offline; ended is the bool it returns
on_offline(w, cfg, net, t) ==
    LET offset == 60 * cfg.offline_grace_period
        cleared == [w EXCEPT !.segments = <<>>, !.offline_timestamp = None]
        num == clamp(cfg.top_clips, 0, 5)
    IN  IF w.offline_timestamp = None
        THEN [w |-> [w EXCEPT !.offline_timestamp = Some(t + offset)],
              ok |-> TRUE, ended |-> FALSE, err |-> "", notes |-> <<>>, calls |-> {}]
        ELSE IF Unwrap(w.offline_timestamp) > t
        THEN [w |-> w, ok |-> TRUE, ended |-> FALSE, err |-> "", notes |-> <<>>, calls |-> {}]
        ELSE IF is_skipped(cfg, "vod")
        THEN [w |-> cleared, ok |-> TRUE, ended |-> TRUE, err |-> "", notes |-> <<>>,
              calls |-> {}]
        ELSE IF num > 0 /\ net.clips # "Ok"
        THEN [w |-> cleared, ok |-> FALSE, ended |-> FALSE, err |-> net.clips,
              notes |-> <<>>,
              calls |-> {"get_videos", "get_top_clips"}
                        \cup (IF w.segments[1].video_id = "" THEN {} ELSE {"get_video_by_id"})]
        ELSE [w |-> cleared, ok |-> TRUE, ended |-> TRUE, err |-> "",
              notes |-> <<Notification("vod", EmptyGame, timestamp_index(w.segments))>>,
              calls |-> {"get_videos"}
                        \cup (IF w.segments[1].video_id = "" THEN {} ELSE {"get_video_by_id"})
                        \cup (IF num > 0 THEN {"get_top_clips"} ELSE {})]

\* variant of update in which an Observed-Live on a running session leaves
\* the offline deadline in place
update_keeps_deadline(w, cfg, event, net, t) ==
    IF event.kind = "Live" /\ w.segments = <<>>
    THEN LET r == on_go_live(w, cfg, event.stream, net, t)
         IN  [w |-> r.w, state |-> IF r.ok THEN "Updated" ELSE "Err", err |-> r.err,
              notes |-> r.notes, asked |-> r.asked, calls |-> r.calls]
    ELSE IF event.kind = "Live"
    THEN LET r == on_update(w, cfg, event.stream, net, t)
         IN  [w |-> [r.w EXCEPT !.offline_timestamp = w.offline_timestamp],
              state |-> IF ~r.ok THEN "Err" ELSE IF r.changed THEN "Updated" ELSE "Unchanged",
              err |-> r.err, notes |-> r.notes, asked |-> r.asked, calls |-> r.calls]
    ELSE IF event.kind = "Offline" /\ w.segments # <<>>
    THEN LET r == on_offline(w, cfg, net, t)
         IN  [w |-> r.w,
              state |-> IF ~r.ok THEN "Err" ELSE IF r.ended THEN "Ended" ELSE "Updated",
              err |-> r.err, notes |-> r.notes, asked |-> "NoLookup", calls |-> r.calls]
    ELSE [w |-> w, state |-> "Unchanged", err |-> "", notes |-> <<>>, asked |-> "NoLookup",
          calls |-> {}]

\* StreamWatcher::update; state is the WatcherState it returns, "Err" an
\* error returned to the actor; asked is the upstream's answer to the
\* category request when one was issued, calls the TwitchClient lookups made
update(w, cfg, event, net, t) ==
    IF event.kind = "Live" /\ w.segments = <<>>
    THEN LET r == on_go_live(w, cfg, event.stream, net, t)
         IN  [w |-> r.w, state |-> IF r.ok THEN "Updated" ELSE "Err", err |-> r.err,
              notes |-> r.notes, asked |-> r.asked, calls |-> r.calls]
    ELSE IF event.kind = "Live"
    THEN LET r == on_update(w, cfg, event.stream, net, t)
         IN  [w |-> r.w,
              state |-> IF ~r.ok THEN "Err" ELSE IF r.changed THEN "Updated" ELSE "Unchanged",
              err |-> r.err, notes |-> r.notes, asked |-> r.asked, calls |-> r.calls]
    ELSE IF event.kind = "Offline" /\ w.segments # <<>>
    THEN LET r == on_offline(w, cfg, net, t)
         IN  [w |-> r.w,
              state |-> IF ~r.ok THEN "Err" ELSE IF r.ended THEN "Ended" ELSE "Updated",
              err |-> r.err, notes |-> r.notes, asked |-> "NoLookup", calls |-> r.calls]
    ELSE [w |-> w, state |-> "Unchanged", err |-> "", notes |-> <<>>, asked |-> "NoLookup",
          calls |-> {}]

(***************************************************************************)
(* Persistence (src/database-api/src/file.rs, serde derive of StreamWatcher)*)
(***************************************************************************)
\* Serialize: offline_timestamp is left out when None, config always
serialize(w) ==
    IF w.offline_timestamp = None
    THEN [user_name |-> w.user_name, user_id |-> w.user_id, stream_id |-> w.stream_id,
          segments |-> w.segments, start_timestamp |-> w.start_timestamp]
    ELSE [user_name |-> w.user_name, user_id |-> w.user_id, stream_id |-> w.stream_id,
          segments |-> w.segments, start_timestamp |-> w.start_timestamp,
          offline_timestamp |-> Unwrap(w.offline_timestamp)]

\* variant of Deserialize that does not read offline_timestamp back
deserialize_without_deadline(doc) ==
    [user_name |-> doc.user_name, user_id |-> doc.user_id, stream_id |-> doc.stream_id,
     segments |-> doc.segments, start_timestamp |-> doc.start_timestamp,
     offline_timestamp |-> None]

\* Deserialize: a missing offline_timestamp defaults to None
deserialize(doc) ==
    [user_name |-> doc.user_name, user_id |-> doc.user_id, stream_id |-> doc.stream_id,
     segments |-> doc.segments, start_timestamp |-> doc.start_timestamp,
     offline_timestamp |-> IF "offline_timestamp" \in DOMAIN doc
                           THEN Some(doc.offline_timestamp) ELSE None]

\* the store is the function from the keys that have a file to the document
save(store, key, doc) == [k \in DOMAIN store \cup {key} |-> IF k = key THEN doc ELSE store[k]]
delete(store, key) == [k \in DOMAIN store \ {key} |-> store[k]]

\* files that read cannot turn into a watcher: content that does not parse
\* (DatabaseError::Serde) and a file that cannot be read (DatabaseError::Io)
Unreadable == {[fault |-> "Serde"], [fault |-> "Io"]}
\* variant that restores the record without its tracked broadcast id
read_forgetting_broadcast(store, key) ==
    IF key \notin DOMAIN store
    THEN [ok |-> FALSE, err |-> "NotFound", w |-> StreamWatcher_new("", 0)]
    ELSE IF store[key] \in Unreadable
    THEN [ok |-> FALSE, err |-> store[key].fault, w |-> StreamWatcher_new("", 0)]
    ELSE [ok |-> TRUE, err |-> "",
          w |-> [deserialize(store[key]) EXCEPT !.stream_id = ""]]
\* FileDatabase::read::<StreamWatcher>
read(store, key) ==
    IF key \notin DOMAIN store
    THEN [ok |-> FALSE, err |-> "NotFound", w |-> StreamWatcher_new("", 0)]
    ELSE IF store[key] \in Unreadable
    THEN [ok |-> FALSE, err |-> store[key].fault, w |-> StreamWatcher_new("", 0)]
    ELSE [ok |-> TRUE, err |-> "", w |-> deserialize(store[key])]

\* FileDatabase at the level of files.  A file holds the first len of the
\* DocChunks pieces of the JSON text of doc; it parses when it is complete
\* format!("{}/{}.json", self.root, key)
file_name(key) == key \o ".json"
\* variant of the temporary name that is the name of the document itself
part_name_in_place(key) == key \o ".json"

\* format!("{}/{}-part.json", self.root, key)
part_name(key) == key \o "-part.json"
\* fs::read and serde_json::from_slice of the file of a key
read_file(files, key) ==
    IF file_name(key) \notin DOMAIN files
    THEN [ok |-> FALSE, err |-> "NotFound", doc |-> None]
    ELSE IF files[file_name(key)].len < DocChunks
    THEN [ok |-> FALSE, err |-> "Serde", doc |-> None]
    ELSE [ok |-> TRUE, err |-> "", doc |-> Some(files[file_name(key)].doc)]
\* the files with `path` holding the first len pieces of doc
write_file(files, path, doc, len) ==
    [f \in DOMAIN files \cup {path} |->
        IF f = path THEN [doc |-> doc, len |-> len] ELSE files[f]]
\* fs::rename: the file at `from` replaces the one at `to` in one step
rename(files, from, to) ==
    IF from = to THEN files
    ELSE [f \in (DOMAIN files \ {from}) \cup {to} |->
            IF f = to THEN files[from] ELSE files[f]]

\* the watcher of a session of broadcast 999 that a previous run of the
\* process was tracking when it stopped: n Segments, one category change per
\* cooldown, and in_grace when that run had handled a first Observed-Offline
\* SeedOfflineAge seconds before this run booted
SeedOfflineAge == 70
SeedWatcher(login, cfg, n, in_grace) ==
    [user_name |-> login, user_id |-> UserIdOf(login), stream_id |-> "999",
     segments |-> [i \in 1..n |->
                    [game |-> IF i % 2 = 1 THEN GameOf("512710") ELSE GameOf("509658"),
                     position |-> Cooldown * (i - 1),
                     video_id |-> VideoIdOf("999")]],
     start_timestamp |-> StartedAt("999"),
     offline_timestamp |-> IF in_grace
                           THEN Some(BootTime - SeedOfflineAge + 60 * cfg.offline_grace_period)
                           ELSE None]

\* the documents the store can hold for a login when the process boots
Seeds(login, cfg) ==
    {serialize(SeedWatcher(login, cfg, 2, FALSE)),
     serialize(SeedWatcher(login, cfg, SeedSegs, TRUE))}

(***************************************************************************)
(* State                                                                    *)
(***************************************************************************)
VARIABLES
    now,       \* the clock, in seconds
    config,    \* the parsed config.json
    db,        \* the file store: key -> document
    pc,        \* position of main: "load", "retain", "fetch", "send", "sleep", "exit"
    pending,   \* events of the current poll that main has still to push
    watchers,  \* keys of main's map login -> Sender
    actor,     \* the spawned watcher tasks, by login
    last,      \* record of the latest event an actor took from its queue
    io_failed, \* number of failed store operations so far
    resumed,   \* per login: the last event handled was an Observed-Live that
               \* came before the deadline of a running grace period, or such
               \* an event followed by further Observed-Live only
    prev_live, \* per login: the Stream of the last Observed-Live handled without error
    disk,      \* the directory of FileDatabase and the save that is under way
    logins,    \* config.twitch.user_login, as written in config.json
    poll,      \* record of the current iteration: the batch, the Senders held, the pushes made
    identity,  \* TwitchClient::identity, the token in use
    req,       \* one call of OauthClient::make_request or authorize and its retry loop
    games_cache, \* TwitchClient::games_cache, most recently used first
    lookup,    \* record of the latest call of get_game_by_id
    duration   \* record of the latest VideoDuration parsed or displayed

vars == <<now, config, db, pc, pending, watchers, actor, io_failed, last, resumed, prev_live,
          disk, logins, poll, identity, req, games_cache, lookup, duration>>

StreamUpdate_Live(stream, t) == [kind |-> "Live", stream |-> stream, sent |-> t]
StreamUpdate_Offline(t) == [kind |-> "Offline", stream |-> NoStream, sent |-> t]

NoLast ==
    [login |-> "", event |-> StreamUpdate_Offline(0), state |-> "None", err |-> "",
     pre |-> StreamWatcher_new("", 0), post |-> StreamWatcher_new("", 0),
     notes |-> <<>>, asked |-> "NoLookup", calls |-> {}, at |-> 0,
     resumed |-> FALSE, prev_live |-> NoStream,
     identity |-> [access_token |-> 0, expires_at |-> 0]]

\* start_watcher: the task's locals and its receiving end of the channel
start_watcher(watcher, t) ==
    [pc |-> "recv", watcher |-> watcher, queue |-> <<>>, next_update |-> t, closed |-> FALSE]

Running == pc # "exit"

\* OauthClient::authorize answered at t: the n-th token, valid for expires_in
authorize(n, t, expires_in) == [access_token |-> n, expires_at |-> t + expires_in]

\* expires_in of the token the process starts with: it comes up for refresh
\* after a few polls
ShortLived == RefreshWindow + EarlyPolls * PollInterval

\* variant of the test that also refreshes a token expiring exactly at the
\* end of the window
refresh_due_inclusive(id, t) == id.expires_at <= t + RefreshWindow

\* refresh_auth: the token is replaced when it expires within the window
refresh_due(id, t) == id.expires_at < t + RefreshWindow

\* no call of the oauth client is followed
NoReq ==
    [fn |-> "none", pc |-> "idle", attempts |-> 0, backoff |-> MIN_BACKOFF, slept |-> <<>>,
     last |-> [kind |-> "none"], result |-> None, parsed |-> 0]

\* LruCache::new: nothing cached
NoCache == <<>>

\* no category has been looked up
NoLookup == [n |-> 0, id |-> "", requested |-> FALSE, result |-> None]

\* no duration has been parsed or displayed
NoDuration ==
    [op |-> "none", tokens |-> <<>>, text |-> <<>>, checked |-> FALSE, secs |-> [hi |-> 0, lo |-> 0],
     result |-> None]

\* no iteration under way
NoPoll == [batch |-> {}, had |-> {}, routed |-> <<>>, began |-> 0, fetched |-> 0]

\* the directory before the first save: no file, no save under way
NoDisk ==
    [files |-> [f \in {} |-> 0], pc |-> "idle", key |-> "", doc |-> None,
     old |-> [ok |-> FALSE, err |-> "NotFound", doc |-> None],
     saves |-> 0, crashed |-> FALSE, seen |-> None]

Init ==
    /\ now = BootTime
    /\ config \in Configs
    /\ \E keys \in SUBSET {to_lowercase(l) : l \in Logins} :
         db \in [keys -> UNION {Seeds(k, config) : k \in keys}]
    /\ \A k \in DOMAIN db : db[k] \in Seeds(k, config)
    /\ pc = "load"
    /\ pending = <<>>
    /\ watchers = {}
    /\ io_failed = 0
    /\ actor = [l \in {} |-> 0]
    /\ last = NoLast
    /\ resumed = [l \in Logins |-> FALSE]
    /\ prev_live = [l \in Logins |-> NoStream]
    /\ disk = NoDisk
    /\ logins = Logins
    /\ poll = NoPoll
    /\ identity = authorize(0, BootTime, ShortLived)
    /\ req = NoReq
    /\ games_cache = NoCache
    /\ lookup = NoLookup
    /\ duration = NoDuration

(***************************************************************************)
(* main (src/strumbot/src/main.rs)                                          *)
(***************************************************************************)
\* variant of load_cache that gives up at a record it cannot read
load_cache_all_or_nothing(names, store, t) ==
    LET keys == {to_lowercase(n) : n \in names}
    IN  IF \E k \in keys : ~read(store, k).ok /\ read(store, k).err # "NotFound"
        THEN [k \in {} |-> 0]
        ELSE [k \in {k \in keys : read(store, k).ok} |-> start_watcher(read(store, k).w, t)]

\* the name of `names` whose Sender the map holds under key k at the end of
\* load_cache; the tasks of the names of one key are alike
kept_name(names, k) == IF k \in names THEN k ELSE CHOOSE n \in names : to_lowercase(n) = k

\* load_cache: every configured login whose document is read back gets a
\* task holding the restored watcher, under its lowercased name; a login
\* whose file is missing or cannot be read or parsed is passed over.  When
\* two configured names have the same lowercased name each gets a task, and
\* watchers.insert replaces the Sender of the earlier one: that task is
\* listed here under the name as configured and is not in the map
load_cache(names, store, t) ==
    LET keys == {k \in {to_lowercase(n) : n \in names} : read(store, k).ok}
        replaced == {n \in names : read(store, to_lowercase(n)).ok
                                    /\ n # kept_name(names, to_lowercase(n))}
    IN  [k \in keys \cup replaced |-> start_watcher(read(store, to_lowercase(k)).w, t)]

\* variant that spawns the restored tasks without keeping their Senders
LoadCache_unregistered ==
    /\ pc = "load"
    /\ actor' = IF config.cache_enabled THEN load_cache(logins, db, now) ELSE [k \in {} |-> 0]
    /\ watchers' = {}
    /\ pc' = "retain"
    /\ UNCHANGED <<disk, duration, req, games_cache, lookup, logins, poll, identity, now, config, db, pending, io_failed, last, resumed, prev_live>>

\* if config.cache.enabled { load_cache(..) }
LoadCache ==
    /\ pc = "load"
    /\ actor' = IF config.cache_enabled THEN load_cache(logins, db, now) ELSE [k \in {} |-> 0]
    /\ watchers' = {to_lowercase(n) : n \in DOMAIN actor'}
    /\ pc' = "retain"
    /\ UNCHANGED <<disk, duration, req, games_cache, lookup, logins, poll, identity, now, config, db, pending, io_failed, last, resumed, prev_live>>

\* variant of the loop that never drops a Sender
Retain_keeping_closed ==
    /\ pc = "retain"
    /\ pc' = "fetch"
    /\ UNCHANGED <<disk, duration, req, games_cache, lookup, logins, poll, identity, now, config, db, pending, watchers, actor, io_failed, last, resumed, prev_live>>

\* watchers.retain(|_, watcher| !watcher.is_closed()): the Sender of a task
\* that has finished is dropped
Retain ==
    /\ pc = "retain"
    /\ LET open == {k \in watchers : ~actor[k].closed}
       IN  /\ watchers' = open
           /\ actor' = [k \in DOMAIN actor \ (watchers \ open) |-> actor[k]]
    /\ pc' = "fetch"
    /\ UNCHANGED <<disk, duration, req, games_cache, lookup, logins, poll, identity, now, config, db, pending, io_failed, last, resumed, prev_live>>

\* the sequences that list every element of S once
Orders(S) == {s \in [1..Cardinality(S) -> S] : \A x \in S : \E i \in DOMAIN s : s[i] = x}

\* get_streams_by_login awaited and answered after `took` seconds: the logins
\* in `live` are reported with the snapshots `streams`; the loop's pushes are
\* queued in the order it makes them
FetchTaking(took) ==
    /\ pc = "fetch"
    /\ \E live \in SUBSET logins :
        \E streams \in [live -> Snapshots] :
        \E lives \in Orders(live),
           offline \in Orders({to_lowercase(l) : l \in logins} \ {to_lowercase(l) : l \in live}) :
            /\ pending' =
                 [i \in 1..Len(lives) |->
                    [name |-> to_lowercase(lives[i]),
                     event |-> StreamUpdate_Live(
                         Stream(lives[i], streams[lives[i]][1], streams[lives[i]][2]), now)]]
                 \o [i \in 1..Len(offline) |->
                    [name |-> offline[i], event |-> StreamUpdate_Offline(now)]]
            /\ poll' = [batch |-> {to_lowercase(l) : l \in live}, had |-> watchers,
                        routed |-> [k \in {to_lowercase(l) : l \in logins} |-> <<>>],
                        began |-> now, fetched |-> now + took]
    /\ now' = now + took
    /\ pc' = "send"
    /\ UNCHANGED <<disk, duration, req, games_cache, lookup, logins, identity, config, db, watchers, actor, io_failed, last, resumed, prev_live>>

\* the fetch of an iteration whose answer takes no time
Fetch == FetchTaking(0)

\* get_streams_by_login(..).await? : an error leaves main, the process ends
FetchFail ==
    /\ pc = "fetch"
    /\ pc' = "exit"
    /\ UNCHANGED <<disk, duration, req, games_cache, lookup, logins, poll, identity, now, config, db, pending, watchers, actor, io_failed, last, resumed, prev_live>>

\* the pushes of this iteration with one more for `name`
Routed(name, what) == [poll EXCEPT !.routed[name] = Append(@, what)]

\* variant of push that makes room in a full queue by dropping its oldest event
Push_overwriting ==
    /\ pc = "send" /\ pending # <<>>
    /\ LET p == Head(pending)
       IN  /\ p.name \in watchers
           /\ actor' = IF actor[p.name].closed THEN actor
                       ELSE IF Len(actor[p.name].queue) < QueueCapacity
                            THEN [actor EXCEPT ![p.name].queue = Append(@, p.event)]
                            ELSE [actor EXCEPT ![p.name].queue = Append(Tail(@), p.event)]
           /\ poll' = IF actor[p.name].closed THEN Routed(p.name, "Dropped" \o p.event.kind)
                      ELSE Routed(p.name, p.event.kind)
    /\ pending' = Tail(pending)
    /\ UNCHANGED <<disk, duration, req, games_cache, lookup, logins, identity, now, config, db, pc, watchers, io_failed, last, resumed, prev_live>>

\* push on a Sender of the map: the event is queued, or dropped when the
\* receiving end is closed; a full queue makes the send wait
Push ==
    /\ pc = "send" /\ pending # <<>>
    /\ LET p == Head(pending)
       IN  /\ p.name \in watchers
           /\ \/ actor[p.name].closed
              \/ Len(actor[p.name].queue) < QueueCapacity
           /\ actor' = IF actor[p.name].closed THEN actor
                       ELSE [actor EXCEPT ![p.name].queue = Append(@, p.event)]
           /\ poll' = IF actor[p.name].closed THEN Routed(p.name, "Dropped" \o p.event.kind)
                      ELSE Routed(p.name, p.event.kind)
    /\ pending' = Tail(pending)
    /\ UNCHANGED <<disk, duration, req, games_cache, lookup, logins, identity, now, config, db, pc, watchers, io_failed, last, resumed, prev_live>>

\* variant that spawns and registers the task but sends it nothing
PushNew_without_event ==
    /\ pc = "send" /\ pending # <<>>
    /\ LET p == Head(pending)
       IN  /\ p.name \notin watchers
           /\ p.event.kind = "Live"
           /\ actor' = [k \in DOMAIN actor \cup {p.name} |->
                          IF k = p.name
                          THEN start_watcher(StreamWatcher_new(p.name, now), now)
                          ELSE actor[k]]
           /\ watchers' = watchers \cup {p.name}
           /\ resumed' = [resumed EXCEPT ![p.name] = FALSE]
           /\ prev_live' = [prev_live EXCEPT ![p.name] = NoStream]
    /\ pending' = Tail(pending)
    /\ UNCHANGED <<disk, duration, req, games_cache, lookup, logins, poll, identity, now, config, db, pc, io_failed, last>>

\* a live login without a Sender: StreamWatcher::new, start_watcher, push, insert
PushNew ==
    /\ pc = "send" /\ pending # <<>>
    /\ LET p == Head(pending)
       IN  /\ p.name \notin watchers
           /\ p.event.kind = "Live"
           /\ actor' = [k \in DOMAIN actor \cup {p.name} |->
                          IF k = p.name
                          THEN [start_watcher(StreamWatcher_new(p.name, now), now)
                                  EXCEPT !.queue = <<p.event>>]
                          ELSE actor[k]]
           /\ watchers' = watchers \cup {p.name}
           /\ resumed' = [resumed EXCEPT ![p.name] = FALSE]
           /\ prev_live' = [prev_live EXCEPT ![p.name] = NoStream]
           /\ poll' = Routed(p.name, "Live")
    /\ pending' = Tail(pending)
    /\ UNCHANGED <<disk, duration, req, games_cache, lookup, logins, identity, now, config, db, pc, io_failed, last>>

\* an offline login without a Sender gets nothing
NoPush ==
    /\ pc = "send" /\ pending # <<>>
    /\ LET p == Head(pending)
       IN  /\ p.name \notin watchers
           /\ p.event.kind = "Offline"
    /\ pending' = Tail(pending)
    /\ UNCHANGED <<disk, duration, req, games_cache, lookup, logins, poll, identity, now, config, db, pc, watchers, actor, io_failed, last, resumed, prev_live>>

\* a task that has nothing left to do before the next poll
Idle(a) == a.pc = "done" \/ (a.pc = "recv" /\ a.queue = <<>>)

\* refresh_auth returning Ok: the identity the client holds afterwards
refresh_auth(id, t) ==
    IF refresh_due(id, t) THEN authorize(id.access_token + 1, t, LongLived) ELSE id

\* try_join!(refresh_auth, sleep(10 s)), then the next iteration; the tasks
\* finish the work of a poll within the sleep that follows it
Sleep ==
    /\ pc = "send" /\ pending = <<>>
    /\ \A k \in DOMAIN actor : Idle(actor[k])
    /\ now + PollInterval <= MaxTime
    /\ identity' = refresh_auth(identity, now)
    /\ now' = now + PollInterval
    /\ pc' = "retain"
    /\ poll' = NoPoll
    /\ UNCHANGED <<disk, duration, req, games_cache, lookup, logins, config, db, pending, watchers, actor, io_failed, last, resumed, prev_live>>

\* refresh_auth returning Err: authorize failed, the identity is not
\* replaced, and try_join!(..)? leaves main
RefreshFail ==
    /\ pc = "send" /\ pending = <<>>
    /\ refresh_due(identity, now)
    /\ pc' = "exit"
    /\ UNCHANGED <<disk, duration, req, games_cache, lookup, logins, poll, identity, now, config, db, pending, watchers, actor, io_failed, last, resumed, prev_live>>

(***************************************************************************)
(* The task spawned by start_watcher                                         *)
(***************************************************************************)
\* next_update.elapsed().is_zero(): next_update is still ahead
elapsed_is_zero(next_update, t) == t < next_update

Taken(l, event, r) ==
    [login |-> l, event |-> event, state |-> r.state, err |-> r.err,
     pre |-> actor[l].watcher, post |-> r.w, notes |-> r.notes, asked |-> r.asked,
     calls |-> r.calls, at |-> now, resumed |-> resumed[l], prev_live |-> prev_live[l],
     identity |-> identity]

\* recv() during the cooldown: the event is dropped (continue)
ActorSkip(l) ==
    /\ Running /\ l \in DOMAIN actor
    /\ actor[l].pc = "recv" /\ actor[l].queue # <<>>
    /\ elapsed_is_zero(actor[l].next_update, now)
    /\ actor' = [actor EXCEPT ![l].queue = Tail(@)]
    /\ last' = Taken(l, Head(actor[l].queue),
                     [w |-> actor[l].watcher, state |-> "Skipped", err |-> "", notes |-> <<>>,
                      asked |-> "NoLookup", calls |-> {}])
    /\ UNCHANGED <<disk, duration, req, games_cache, lookup, logins, poll, identity, now, config, db, pc, pending, watchers, io_failed, resumed, prev_live>>

\* variant of the loop that starts the cooldown without saving
after_update_without_save(state, cache_enabled) ==
    IF state = "Ended" THEN "delete"
    ELSE IF state = "Updated" THEN "cooldown"
    ELSE "recv"

\* where the loop goes after watcher.update returned `state`
after_update(state, cache_enabled) ==
    IF state = "Ended" THEN "delete"
    ELSE IF state = "Updated" THEN (IF cache_enabled THEN "save" ELSE "cooldown")
    ELSE "recv"

\* recv() and watcher.update(event)
ActorHandle(l) ==
    /\ Running /\ l \in DOMAIN actor
    /\ actor[l].pc = "recv" /\ actor[l].queue # <<>>
    /\ ~elapsed_is_zero(actor[l].next_update, now)
    /\ \E net \in Nets :
        LET event == Head(actor[l].queue)
            r == update(actor[l].watcher, config, event, net, now)
            before == actor[l].watcher.offline_timestamp
        IN  /\ actor' = [actor EXCEPT ![l].queue = Tail(@),
                                      ![l].watcher = r.w,
                                      ![l].pc = after_update(r.state, config.cache_enabled)]
            /\ last' = Taken(l, event, r)
            /\ resumed' = [resumed EXCEPT ![l] =
                             IF event.kind = "Offline" THEN FALSE
                             ELSE IF actor[l].watcher.segments # <<>> /\ before # None
                                     /\ now < Unwrap(before)
                                  THEN TRUE ELSE @]
            /\ prev_live' = [prev_live EXCEPT ![l] =
                               IF event.kind = "Live" /\ r.state # "Err" THEN event.stream
                               ELSE @]
    /\ UNCHANGED <<disk, duration, req, games_cache, lookup, logins, poll, identity, now, config, db, pc, pending, watchers, io_failed>>

\* db.save(&key, &watcher), which may fail and is then only logged, and the
\* start of the cooldown
ActorSave(l) ==
    /\ Running /\ l \in DOMAIN actor
    /\ actor[l].pc \in {"save", "cooldown"}
    /\ \/ /\ actor[l].pc = "save"
          /\ db' = save(db, to_lowercase(actor[l].watcher.user_name), serialize(actor[l].watcher))
          /\ io_failed' = io_failed
       \/ /\ actor[l].pc = "save" /\ io_failed < MaxIoFailures
          /\ db' = db
          /\ io_failed' = io_failed + 1
       \/ /\ actor[l].pc = "cooldown"
          /\ UNCHANGED <<db, io_failed>>
    /\ actor' = [actor EXCEPT ![l].next_update = now + Cooldown, ![l].pc = "recv"]
    /\ UNCHANGED <<disk, duration, req, games_cache, lookup, logins, poll, identity, now, config, pc, pending, watchers, last, resumed, prev_live>>

\* after the loop: db.delete(&key), whose failure is only logged, and
\* receive.close()
ActorDelete(l) ==
    /\ Running /\ l \in DOMAIN actor
    /\ actor[l].pc = "delete"
    /\ \/ /\ db' = delete(db, to_lowercase(actor[l].watcher.user_name))
          /\ io_failed' = io_failed
       \/ /\ io_failed < MaxIoFailures
          /\ db' = db
          /\ io_failed' = io_failed + 1
    /\ actor' = [actor EXCEPT ![l].closed = TRUE, ![l].pc = "done"]
    /\ UNCHANGED <<disk, duration, req, games_cache, lookup, logins, poll, identity, now, config, pc, pending, watchers, last, resumed, prev_live>>

Next ==
    \/ LoadCache
    \/ Retain
    \/ Fetch
    \/ FetchFail
    \/ Push
    \/ PushNew
    \/ NoPush
    \/ Sleep
    \/ RefreshFail
    \/ \E l \in Logins : ActorSkip(l)
    \/ \E l \in Logins : ActorHandle(l)
    \/ \E l \in Logins : ActorSave(l)
    \/ \E l \in Logins : ActorDelete(l)

Spec == Init /\ [][Next]_vars

(***************************************************************************)
(* FileDatabase::save step by step (src/database-api/src/file.rs), with the *)
(* process crashing at any point and reading the key back after restart     *)
(***************************************************************************)
mainvars == <<now, config, db, pc, pending, watchers, actor, io_failed, last, resumed, prev_live,
              logins, poll, identity>>

DefaultConfig ==
    [offline_grace_period |-> DefaultGracePeriod, top_clips |-> 0,
     enabled_events |-> EventNames, cache_enabled |-> TRUE]
\* the documents a task of login saves: a session that is live and the same
\* session in its grace period
Documents(login) ==
    {serialize(SeedWatcher(login, DefaultConfig, 2, g)) : g \in BOOLEAN}

\* the directory holds no file, or the complete document of an earlier save
SaveInit ==
    /\ now = BootTime
    /\ config = DefaultConfig
    /\ db = [k \in {} |-> 0]
    /\ pc = "load"
    /\ pending = <<>>
    /\ watchers = {}
    /\ io_failed = 0
    /\ actor = [l \in {} |-> 0]
    /\ last = NoLast
    /\ resumed = [l \in Logins |-> FALSE]
    /\ prev_live = [l \in Logins |-> NoStream]
    /\ logins = Logins
    /\ poll = NoPoll
    /\ identity = authorize(0, BootTime, LongLived)
    /\ req = NoReq
    /\ games_cache = NoCache
    /\ lookup = NoLookup
    /\ duration = NoDuration
    /\ \E key \in {to_lowercase(l) : l \in Logins} :
         \/ disk = [NoDisk EXCEPT !.key = key]
         \/ \E doc \in Documents(key) :
              LET files == write_file(NoDisk.files, file_name(key), doc, DocChunks)
              IN  disk = [NoDisk EXCEPT !.key = key, !.files = files,
                                        !.old = read_file(files, key)]

\* save is called: serde_json::to_string(&document)
SaveBegin ==
    /\ disk.pc = "idle" /\ ~disk.crashed /\ disk.saves < MaxSaves
    /\ \E doc \in Documents(disk.key) :
         disk' = [disk EXCEPT !.pc = "create", !.doc = Some(doc),
                              !.old = read_file(disk.files, disk.key),
                              !.saves = @ + 1, !.seen = None]
    /\ UNCHANGED <<mainvars, req, games_cache, lookup, duration>>

\* fs::write opens the temporary file: it is created, or emptied if a crash
\* had left one behind
SaveCreate ==
    /\ disk.pc = "create" /\ ~disk.crashed
    /\ disk' = [disk EXCEPT !.pc = "write",
                            !.files = write_file(@, part_name(disk.key), Unwrap(disk.doc), 0)]
    /\ UNCHANGED <<mainvars, req, games_cache, lookup, duration>>

\* fs::write writes the next piece of the text
SaveWrite ==
    /\ disk.pc = "write" /\ ~disk.crashed
    /\ LET len == disk.files[part_name(disk.key)].len + 1
       IN  disk' = [disk EXCEPT !.pc = IF len = DocChunks THEN "rename" ELSE "write",
                                !.files = write_file(@, part_name(disk.key),
                                                     Unwrap(disk.doc), len)]
    /\ UNCHANGED <<mainvars, req, games_cache, lookup, duration>>

\* fs::rename(&name, "{root}/{key}.json"), after which save returns
SaveRename ==
    /\ disk.pc = "rename" /\ ~disk.crashed
    /\ disk' = [disk EXCEPT !.pc = "idle",
                            !.files = rename(@, part_name(disk.key), file_name(disk.key))]
    /\ UNCHANGED <<mainvars, req, games_cache, lookup, duration>>

\* the process dies; the files stay as they are
Crash ==
    /\ ~disk.crashed
    /\ disk.doc # None
    /\ disk' = [disk EXCEPT !.crashed = TRUE]
    /\ UNCHANGED <<mainvars, req, games_cache, lookup, duration>>

\* the process is started again and load_cache reads the key
Restart ==
    /\ disk.crashed
    /\ disk' = [disk EXCEPT !.crashed = FALSE, !.pc = "idle",
                            !.seen = Some(read_file(disk.files, disk.key))]
    /\ UNCHANGED <<mainvars, req, games_cache, lookup, duration>>

SaveNext ==
    \/ SaveBegin
    \/ SaveCreate
    \/ SaveWrite
    \/ SaveRename
    \/ Crash
    \/ Restart

SaveSpec == SaveInit /\ [][SaveNext]_vars

(***************************************************************************)
(* OauthClient (src/src/twitch/oauth.rs): one call of make_request or of     *)
(* authorize, followed attempt by attempt                                   *)
(***************************************************************************)
\* the main program before load_cache, which these calls do not touch
AtRest ==
    /\ now = BootTime
    /\ config = DefaultConfig
    /\ db = [k \in {} |-> 0]
    /\ pc = "load"
    /\ pending = <<>>
    /\ watchers = {}
    /\ io_failed = 0
    /\ actor = [l \in {} |-> 0]
    /\ last = NoLast
    /\ resumed = [l \in Logins |-> FALSE]
    /\ prev_live = [l \in Logins |-> NoStream]
    /\ logins = Logins
    /\ poll = NoPoll
    /\ identity = authorize(0, BootTime, LongLived)
    /\ disk = NoDisk

\* StatusCode::is_success, is_server_error
is_success(status) == status \div 100 = 2
is_server_error(status) == status \div 100 = 5

\* the Retry-After header of a response: not there, text, or bytes outside
\* visible ASCII, for which HeaderValue::to_str fails
RetryAfters ==
    {[kind |-> "absent"], [kind |-> "opaque"]}
    \cup {[kind |-> "text", text |-> t] : t \in {"5", "soon"}}

\* str::parse::<u64> on the texts above: a decimal digit parses
parse(text) ==
    IF \E d \in 0..9 : Digit(d) = text
    THEN Some(CHOOSE d \in 0..9 : Digit(d) = text)
    ELSE None

\* what self.http.execute(request).await may give: a response with a status,
\* or a reqwest::Error of one of the kinds the loop tells apart
Statuses == {200, 401, 429, 500}
Responses ==
    {[kind |-> "status", status |-> st, header |-> [kind |-> "absent"], body |-> "ok"] :
        st \in Statuses \ {429}}
    \cup {[kind |-> "status", status |-> 200, header |-> [kind |-> "absent"], body |-> "bad"]}
    \cup {[kind |-> "status", status |-> 429, header |-> h, body |-> "ok"] : h \in RetryAfters}
    \cup {[kind |-> "error", is |-> e] : e \in {"connect", "timeout", "request", "other"}}

Ok(value) == Some([ok |-> TRUE, err |-> "", status |-> 0])
Err(err) == Some([ok |-> FALSE, err |-> err, status |-> 0])
ErrHttp(status) == Some([ok |-> FALSE, err |-> "Http", status |-> status])

\* variant of the backoff step that goes on doubling past MAX_BACKOFF
next_backoff_unclamped(backoff) == backoff * 2

\* backoff = Ord::clamp(backoff * 2, MIN_BACKOFF, MAX_BACKOFF)
next_backoff(backoff) == clamp(backoff * 2, MIN_BACKOFF, MAX_BACKOFF)

\* the end of a loop iteration that was not left: sleep(backoff), double it
retry(r, resp) ==
    [r EXCEPT !.attempts = @ + 1, !.last = resp,
              !.slept = Append(@, [secs |-> r.backoff, after |-> "retry"]),
              !.backoff = next_backoff(r.backoff)]

\* the 429 arm: sleep(retry_after) or sleep(10), then `continue`
rate_limited(r, resp, secs) ==
    [r EXCEPT !.attempts = @ + 1, !.last = resp,
              !.slept = Append(@, [secs |-> secs, after |-> "limit"])]

\* a `return` out of the loop
returned(r, resp, result) ==
    [r EXCEPT !.attempts = @ + 1, !.last = resp, !.result = result, !.pc = "done"]

\* variant of the match in make_request that takes every status that is not
\* a success for a server error
make_request_retrying_all(r, resp) ==
    IF resp.kind = "status" /\ ~is_success(resp.status) THEN retry(r, resp)
    ELSE returned(r, resp, Err("Unexpected"))

\* one iteration of the loop of make_request on the response resp
make_request(r, resp) ==
    IF resp.kind = "status"
    THEN IF is_success(resp.status)
         THEN [returned(r, resp, IF resp.body = "ok" THEN Ok(resp.body) ELSE Err("Deserialize"))
                 EXCEPT !.parsed = @ + 1]
         ELSE IF is_server_error(resp.status) THEN retry(r, resp)
         ELSE IF resp.status = 429
              THEN IF resp.header.kind = "opaque" THEN returned(r, resp, Err("Unexpected"))
                   ELSE IF resp.header.kind = "text" /\ parse(resp.header.text) # None
                        THEN rate_limited(r, resp, Unwrap(parse(resp.header.text)))
                        ELSE rate_limited(r, resp, RateLimitSleep)
              ELSE returned(r, resp, ErrHttp(resp.status))
    ELSE IF resp.is \in {"connect", "timeout", "request"} THEN retry(r, resp)
         ELSE returned(r, resp, Err("Unexpected"))

\* one iteration of the loop of authorize on the response resp
authorize_attempt(r, resp) ==
    IF resp.kind = "status"
    THEN IF is_success(resp.status)
         THEN [returned(r, resp, IF resp.body = "ok" THEN Ok(resp.body) ELSE Err("Unexpected"))
                 EXCEPT !.parsed = @ + 1]
         ELSE IF is_server_error(resp.status) THEN retry(r, resp)
              ELSE returned(r, resp, ErrHttp(resp.status))
    ELSE IF resp.is \in {"connect", "timeout", "request"} THEN retry(r, resp)
         ELSE returned(r, resp, Err("Unexpected"))

RequestInit ==
    /\ AtRest
    /\ games_cache = NoCache
    /\ lookup = NoLookup
    /\ duration = NoDuration
    /\ \E fn \in {"make_request", "authorize"} : req = [NoReq EXCEPT !.fn = fn, !.pc = "loop"]

\* an iteration of make_request
RequestAttempt ==
    /\ req.fn = "make_request" /\ req.pc = "loop" /\ req.attempts < MaxAttempts
    /\ \E resp \in Responses : req' = make_request(req, resp)
    /\ UNCHANGED <<mainvars, disk, games_cache, lookup, duration>>

\* an iteration of authorize
AuthorizeAttempt ==
    /\ req.fn = "authorize" /\ req.pc = "loop" /\ req.attempts < MaxAttempts
    /\ \E resp \in Responses : req' = authorize_attempt(req, resp)
    /\ UNCHANGED <<mainvars, disk, games_cache, lookup, duration>>

\* the loop ran out: Err(RequestError::Timeout)
Exhausted ==
    /\ req.pc = "loop" /\ req.attempts = MaxAttempts
    /\ req' = [req EXCEPT !.result = Err("Timeout"), !.pc = "done"]
    /\ UNCHANGED <<mainvars, disk, games_cache, lookup, duration>>

RequestNext == RequestAttempt \/ AuthorizeAttempt \/ Exhausted

RequestSpec == RequestInit /\ [][RequestNext]_vars

(***************************************************************************)
(* TwitchClient::get_game_by_id and its LruCache (src/twitch-api/src/        *)
(* client.rs).  The cache is the sequence of its entries, most recently      *)
(* used first; `used` is the number of the lookup that last touched an entry *)
(***************************************************************************)
Entry(key, game, used) == [key |-> key, game |-> game, used |-> used]
Keys(cache) == {cache[i].key : i \in DOMAIN cache}
Position(cache, key) == CHOOSE i \in DOMAIN cache : cache[i].key = key
Without(cache, i) == SubSeq(cache, 1, i - 1) \o SubSeq(cache, i + 1, Len(cache))

\* LruCache::get: a hit moves the entry to the front
lru_get(cache, key, tick) ==
    IF key \in Keys(cache)
    THEN LET i == Position(cache, key)
         IN  [found |-> TRUE, game |-> cache[i].game,
              cache |-> <<[cache[i] EXCEPT !.used = tick]>> \o Without(cache, i)]
    ELSE [found |-> FALSE, game |-> EmptyGame, cache |-> cache]

\* variant of LruCache::push that makes room by dropping the newest entry
lru_push_evicting_newest(cache, key, game, tick) ==
    IF key \in Keys(cache)
    THEN <<Entry(key, game, tick)>> \o Without(cache, Position(cache, key))
    ELSE IF Len(cache) >= CacheCapacity
         THEN <<Entry(key, game, tick)>> \o Tail(cache)
         ELSE <<Entry(key, game, tick)>> \o cache

\* LruCache::push: the entry goes to the front; a key already there is
\* replaced, and a full cache first drops the entry at the back
lru_push(cache, key, game, tick) ==
    IF key \in Keys(cache)
    THEN <<Entry(key, game, tick)>> \o Without(cache, Position(cache, key))
    ELSE IF Len(cache) >= CacheCapacity
         THEN <<Entry(key, game, tick)>> \o SubSeq(cache, 1, CacheCapacity - 1)
         ELSE <<Entry(key, game, tick)>> \o cache

OkGame(game) == Some([ok |-> TRUE, err |-> "", game |-> game])
ErrGame(err) == Some([ok |-> FALSE, err |-> err, game |-> EmptyGame])

\* variant of get_game_by_id without the test for the empty id
get_game_by_id_asking_for_empty(cache, id, outcome, tick) ==
    LET hit == lru_get(cache, id, tick)
    IN  IF hit.found
        THEN [cache |-> hit.cache, requested |-> FALSE, result |-> OkGame(hit.game)]
        ELSE IF outcome = "Found"
             THEN [cache |-> lru_push(cache, id, GameOf(id), tick), requested |-> TRUE,
                   result |-> OkGame(GameOf(id))]
             ELSE [cache |-> cache, requested |-> TRUE, result |-> ErrGame(outcome)]

\* get_game_by_id when the request for a missing id ends with `outcome`
get_game_by_id(cache, id, outcome, tick) ==
    IF id = ""
    THEN [cache |-> cache, requested |-> FALSE, result |-> OkGame(EmptyGame)]
    ELSE LET hit == lru_get(cache, id, tick)
         IN  IF hit.found
             THEN [cache |-> hit.cache, requested |-> FALSE, result |-> OkGame(hit.game)]
             ELSE IF outcome = "Found"
                  THEN [cache |-> lru_push(cache, id, GameOf(id), tick), requested |-> TRUE,
                        result |-> OkGame(GameOf(id))]
                  ELSE [cache |-> cache, requested |-> TRUE, result |-> ErrGame(outcome)]

\* a cache that n earlier lookups have filled, category "1" the latest
Warm(n) == [i \in 1..n |-> Entry(ToString(i), GameOf(ToString(i)), 0 - i)]

\* the ids looked up: none, the newest and the oldest of a full cache, and
\* two that are not cached
LookupIds ==
    {"", "1", ToString(CacheCapacity), ToString(CacheCapacity + 1), ToString(CacheCapacity + 2)}

CacheInit ==
    /\ AtRest
    /\ req = NoReq
    /\ lookup = NoLookup
    /\ duration = NoDuration
    /\ games_cache \in {NoCache, Warm(CacheCapacity - 1), Warm(CacheCapacity)}

Lookup ==
    /\ lookup.n < MaxLookups
    /\ \E id \in LookupIds, outcome \in GameOutcomes :
         LET r == get_game_by_id(games_cache, id, outcome, lookup.n + 1)
         IN  /\ games_cache' = r.cache
             /\ lookup' = [n |-> lookup.n + 1, id |-> id, requested |-> r.requested,
                           result |-> r.result]
    /\ UNCHANGED <<mainvars, disk, req, duration>>

CacheNext == Lookup

CacheSpec == CacheInit /\ [][CacheNext]_vars

(***************************************************************************)
(* The same program when a task may still be at work, or may not yet have    *)
(* been scheduled, at the time the dispatcher's sleep ends                   *)
(***************************************************************************)
\* try_join!(refresh_auth, sleep(10 s)) returns whatever the tasks are doing
SleepBusy ==
    /\ pc = "send" /\ pending = <<>>
    /\ now + PollInterval <= BootTime + PollInterval * LagPolls
    /\ identity' = refresh_auth(identity, now)
    /\ now' = now + PollInterval
    /\ pc' = "retain"
    /\ poll' = NoPoll
    /\ UNCHANGED <<disk, duration, req, games_cache, lookup, logins, config, db, pending, watchers, actor, io_failed, last, resumed, prev_live>>

\* a session ends at the first Offline: no grace period
LagConfig ==
    [offline_grace_period |-> 0, top_clips |-> 0,
     enabled_events |-> EventNames, cache_enabled |-> TRUE]

\* the store is empty or holds a short session whose grace period ran out
\* while the process was down; the token expires exactly RefreshWindow after
\* the first poll, so that the refresh is due at the second
LagInit ==
    /\ now = BootTime
    /\ config = LagConfig
    /\ \E keys \in SUBSET {to_lowercase(l) : l \in Logins} :
         db = [k \in keys |-> serialize(SeedWatcher(k, LagConfig, 2, TRUE))]
    /\ pc = "load"
    /\ pending = <<>>
    /\ watchers = {}
    /\ io_failed = 0
    /\ actor = [l \in {} |-> 0]
    /\ last = NoLast
    /\ resumed = [l \in Logins |-> FALSE]
    /\ prev_live = [l \in Logins |-> NoStream]
    /\ disk = NoDisk
    /\ logins = Logins
    /\ poll = NoPoll
    /\ identity = authorize(0, BootTime, RefreshWindow)
    /\ req = NoReq
    /\ games_cache = NoCache
    /\ lookup = NoLookup
    /\ duration = NoDuration

LagNext ==
    \/ LoadCache
    \/ Retain
    \/ Fetch
    \/ FetchFail
    \/ Push
    \/ PushNew
    \/ NoPush
    \/ SleepBusy
    \/ RefreshFail
    \/ \E l \in Logins : ActorSkip(l)
    \/ \E l \in Logins : ActorHandle(l)
    \/ \E l \in Logins : ActorSave(l)
    \/ \E l \in Logins : ActorDelete(l)

LagSpec == LagInit /\ [][LagNext]_vars

(***************************************************************************)
(* VideoDuration (src/twitch-api/src/model.rs).  A string is the sequence   *)
(* of its characters.                                                       *)
(***************************************************************************)
IsDigit(c) == c \in {Digit(d) : d \in 0..9}
DigitValue(c) == CHOOSE d \in 0..9 : Digit(d) = c

\* numbers wider than the checker's integers, as two limbs: hi * U16 + lo
Wide(hi, lo) == [hi |-> hi + lo \div U16, lo |-> lo % U16]
wide_mul(a, k) == Wide(a.hi * k, a.lo * k)
wide_add(a, b) == Wide(a.hi + b.hi, a.lo + b.lo)
wide_div(a, k) == [hi |-> a.hi \div k, lo |-> ((a.hi % k) * U16 + a.lo) \div k]
wide_mod(a, k) == ((a.hi % k) * U16 + a.lo) % k
\* whether the number is a u32, and the u32 it wraps to
fits_u32(a) == a.hi < U16
wrap_u32(a) == [hi |-> a.hi % U16, lo |-> a.lo]

\* str::parse::<u32>: an error when the number does not fit in 32 bits
RECURSIVE parse_u32(_, _)
parse_u32(digits, acc) ==
    IF digits = <<>> THEN Some(acc)
    ELSE LET n == wide_add(wide_mul(acc, 10), Wide(0, DigitValue(Head(digits))))
         IN  IF ~fits_u32(n) THEN None ELSE parse_u32(Tail(digits), n)

\* Regex ([0-9]+)([hms]), captures_iter: the matches from left to right;
\* run is the digits read since the last character that is not one
RECURSIVE captures_iter(_, _)
captures_iter(s, run) ==
    IF s = <<>> THEN <<>>
    ELSE IF IsDigit(Head(s)) THEN captures_iter(Tail(s), Append(run, Head(s)))
    ELSE IF run # <<>> /\ Head(s) \in {"h", "m", "s"}
         THEN <<[num |-> run, unit |-> Head(s)]>> \o captures_iter(Tail(s), <<>>)
    ELSE captures_iter(Tail(s), <<>>)

\* the result of a u32 operation: a build with overflow checks panics (None)
\* when it does not fit, one without wraps
u32_result(n, checked) ==
    IF fits_u32(n) THEN Some(n) ELSE IF checked THEN None ELSE Some(wrap_u32(n))

\* the closure of map: the seconds of one match
seconds_of(num, unit, checked) ==
    CASE unit = "h" -> u32_result(wide_mul(num, 3600), checked)
      [] unit = "m" -> u32_result(wide_mul(num, 60), checked)
      [] unit = "s" -> Some(num)
      [] OTHER -> Some(Wide(0, 0))

\* filter_map, map and sum over the matches: a number that does not parse is
\* left out
RECURSIVE sum(_, _, _)
sum(matches, acc, checked) ==
    IF matches = <<>> THEN Some(acc)
    ELSE LET m == Head(matches)
             num == parse_u32(m.num, Wide(0, 0))
         IN  IF num = None THEN sum(Tail(matches), acc, checked)
             ELSE LET term == seconds_of(Unwrap(num), m.unit, checked)
                  IN  IF term = None THEN None
                      ELSE LET total == u32_result(wide_add(acc, Unwrap(term)), checked)
                           IN  IF total = None THEN None
                               ELSE sum(Tail(matches), Unwrap(total), checked)

\* Deserialize for VideoDuration: Some(seconds), or None when the thread
\* panicked on an overflow
VideoDuration_deserialize(s, checked) == sum(captures_iter(s, <<>>), Wide(0, 0), checked)

\* {n} and {n:02}
RECURSIVE Decimal(_)
Decimal(n) ==
    IF n.hi = 0 /\ n.lo < 10 THEN <<Digit(n.lo)>>
    ELSE Append(Decimal(wide_div(n, 10)), Digit(wide_mod(n, 10)))
Pad02(n) == IF n.hi = 0 /\ n.lo < 10 THEN <<"0", Digit(n.lo)>> ELSE Decimal(n)

\* Display for VideoDuration
VideoDuration_fmt(n) ==
    LET seconds == wide_mod(n, 60)
        minutes == wide_mod(wide_div(n, 60), 60)
        hours == wide_div(n, 3600)
    IN  Pad02(hours) \o <<"h">> \o Pad02(Wide(0, minutes)) \o <<"m">>
        \o Pad02(Wide(0, seconds)) \o <<"s">>

\* the numbers written in a duration string: small ones, one with a leading
\* zero, the largest number of hours that fits in a u32 and the next, the
\* largest u32 and the next
NumberTexts ==
    {<<"0">>, <<"1">>, <<"3">>, <<"0", "2">>, <<"5", "9">>, <<"6", "0">>,
     <<"1", "1", "9", "3", "0", "4", "6">>, <<"1", "1", "9", "3", "0", "4", "7">>,
     <<"4", "2", "9", "4", "9", "6", "7", "2", "9", "5">>,
     <<"4", "2", "9", "4", "9", "6", "7", "2", "9", "6">>}
Tokens == {[num |-> n, unit |-> u] : n \in NumberTexts, u \in {"h", "m", "s"}}
RECURSIVE Text(_)
Text(tokens) ==
    IF tokens = <<>> THEN <<>>
    ELSE Head(tokens).num \o <<Head(tokens).unit>> \o Text(Tail(tokens))

\* the durations displayed
DisplaySeconds ==
    {Wide(0, n) : n \in {0, 3, 10, 59, 60, 3599, 3600, 3723}}
    \cup {Wide(5, 32319), Wide(5, 32320), Wide(U16 - 1, U16 - 1)}

DurationInit ==
    /\ AtRest
    /\ req = NoReq
    /\ games_cache = NoCache
    /\ lookup = NoLookup
    /\ duration = NoDuration

\* serde_json::from_str of a holder of a duration
Deserialize ==
    /\ duration.op = "none"
    /\ \E k \in 1..MaxTokens : \E tokens \in [1..k -> Tokens] : \E checked \in BOOLEAN :
         duration' = [op |-> "deserialize", tokens |-> tokens, text |-> Text(tokens),
                      checked |-> checked, secs |-> Wide(0, 0),
                      result |-> VideoDuration_deserialize(Text(tokens), checked)]
    /\ UNCHANGED <<mainvars, disk, req, games_cache, lookup>>

\* to_string of a duration: one of DisplaySeconds or the one just parsed
Display ==
    /\ duration.op # "display"
    /\ \E n \in DisplaySeconds \cup (IF duration.op = "deserialize" THEN duration.result ELSE {}) :
         duration' = [op |-> "display", tokens |-> <<>>, text |-> VideoDuration_fmt(n),
                      checked |-> FALSE, secs |-> n, result |-> None]
    /\ UNCHANGED <<mainvars, disk, req, games_cache, lookup>>

DurationNext == Deserialize \/ Display

DurationSpec == DurationInit /\ [][DurationNext]_vars

(***************************************************************************)
(* The poll loop with a fetch that takes time                               *)
(***************************************************************************)
\* seconds the answer of get_streams_by_login takes: none, less than the
\* interval, more than the interval
FetchSeconds == {0, 3, 12}

FetchSlow == \E took \in FetchSeconds : FetchTaking(took)

TimedNext ==
    \/ LoadCache
    \/ Retain
    \/ FetchSlow
    \/ FetchFail
    \/ Push
    \/ PushNew
    \/ NoPush
    \/ SleepBusy
    \/ RefreshFail
    \/ \E l \in Logins : ActorSkip(l)
    \/ \E l \in Logins : ActorHandle(l)
    \/ \E l \in Logins : ActorSave(l)
    \/ \E l \in Logins : ActorDelete(l)

TimedSpec == LagInit /\ [][TimedNext]_vars

(***************************************************************************)
(* The first iteration after a restart that finds a session of any length   *)
(* whose grace period ran out while the process was down                    *)
(***************************************************************************)
IndexInit ==
    /\ now = BootTime
    /\ config = LagConfig
    /\ \E n \in 0..IndexSegs :
         db = [k \in {to_lowercase(l) : l \in IF n = 0 THEN {} ELSE Logins} |->
                 serialize(SeedWatcher(k, LagConfig, n, TRUE))]
    /\ pc = "load"
    /\ pending = <<>>
    /\ watchers = {}
    /\ io_failed = 0
    /\ actor = [l \in {} |-> 0]
    /\ last = NoLast
    /\ resumed = [l \in Logins |-> FALSE]
    /\ prev_live = [l \in Logins |-> NoStream]
    /\ disk = NoDisk
    /\ logins = Logins
    /\ poll = NoPoll
    /\ identity = authorize(0, BootTime, LongLived)
    /\ req = NoReq
    /\ games_cache = NoCache
    /\ lookup = NoLookup
    /\ duration = NoDuration

IndexNext ==
    \/ LoadCache
    \/ Retain
    \/ Fetch
    \/ FetchFail
    \/ Push
    \/ PushNew
    \/ NoPush
    \/ \E l \in Logins : ActorHandle(l)
    \/ \E l \in Logins : ActorSave(l)
    \/ \E l \in Logins : ActorDelete(l)

IndexSpec == IndexInit /\ [][IndexNext]_vars

(***************************************************************************)
(* Startup restore on its own: two configured logins, one of them written   *)
(* with a capital, and a store that may hold a file that cannot be read or   *)
(* parsed                                                                   *)
(***************************************************************************)
RestoreLogins == {"Alice", "bob"}

RestoreInit ==
    /\ now = BootTime
    /\ config \in Configs
    /\ logins = RestoreLogins
    /\ poll = NoPoll
    /\ identity = authorize(0, BootTime, LongLived)
    /\ req = NoReq
    /\ games_cache = NoCache
    /\ lookup = NoLookup
    /\ duration = NoDuration
    /\ \E keys \in SUBSET {to_lowercase(l) : l \in logins} :
         db \in [keys -> UNION {Seeds(k, config) : k \in keys} \cup Unreadable]
    /\ \A k \in DOMAIN db : db[k] \in Seeds(k, config) \cup Unreadable
    /\ pc = "load"
    /\ pending = <<>>
    /\ watchers = {}
    /\ io_failed = 0
    /\ actor = [l \in {} |-> 0]
    /\ last = NoLast
    /\ resumed = [l \in Logins |-> FALSE]
    /\ prev_live = [l \in Logins |-> NoStream]
    /\ disk = NoDisk

RestoreNext == LoadCache

RestoreSpec == RestoreInit /\ [][RestoreNext]_vars

(***************************************************************************)
(* Startup restore with a login configured twice, in two spellings, and the *)
(* tasks it spawns                                                          *)
(***************************************************************************)
TwiceLogins == {"Alice", "alice"}

TwiceInit ==
    /\ now = BootTime
    /\ config \in Configs
    /\ logins = TwiceLogins
    /\ poll = NoPoll
    /\ identity = authorize(0, BootTime, LongLived)
    /\ req = NoReq
    /\ games_cache = NoCache
    /\ lookup = NoLookup
    /\ duration = NoDuration
    /\ \E keys \in SUBSET {to_lowercase(l) : l \in logins} :
         db \in [keys -> UNION {Seeds(k, config) : k \in keys} \cup Unreadable]
    /\ \A k \in DOMAIN db : db[k] \in Seeds(k, config) \cup Unreadable
    /\ pc = "load"
    /\ pending = <<>>
    /\ watchers = {}
    /\ io_failed = 0
    /\ actor = [l \in {} |-> 0]
    /\ last = NoLast
    /\ resumed = [l \in Logins |-> FALSE]
    /\ prev_live = [l \in Logins |-> NoStream]
    /\ disk = NoDisk

\* receive.recv() returning None: the map holds no Sender of this task any
\* more and its queue is empty, so the task leaves its loop
RecvNone(l) ==
    /\ Running /\ l \in DOMAIN actor
    /\ l \notin watchers
    /\ actor[l].pc = "recv" /\ actor[l].queue = <<>>
    /\ actor' = [actor EXCEPT ![l].pc = "delete"]
    /\ UNCHANGED <<disk, duration, req, games_cache, lookup, logins, poll, identity, now, config, db, pc, pending, watchers, io_failed, last, resumed, prev_live>>

TwiceNext ==
    \/ LoadCache
    \/ Retain
    \/ \E l \in TwiceLogins : RecvNone(l)
    \/ \E l \in TwiceLogins : ActorDelete(l)

TwiceSpec == TwiceInit /\ [][TwiceNext]_vars

(***************************************************************************)
(* The program while the channel stays offline: from OfflineFrom on every   *)
(* poll reports it offline, every request to the upstream and every message *)
(* to the webhook succeeds, and the loop keeps polling until QuietEnd        *)
(***************************************************************************)
OfflineFrom == BootTime + PollInterval * LivePolls
QuietEnd == OfflineFrom + PollInterval * QuietPolls

\* the store is empty or holds a short session, in its grace period or not
QuietSeeds(login, cfg) ==
    {serialize(SeedWatcher(login, cfg, 2, FALSE)), serialize(SeedWatcher(login, cfg, 2, TRUE))}
QuietInit ==
    /\ now = BootTime
    /\ config \in Configs
    /\ \E keys \in SUBSET {to_lowercase(l) : l \in Logins} :
         db \in [keys -> UNION {QuietSeeds(k, config) : k \in keys}]
    /\ pc = "load"
    /\ pending = <<>>
    /\ watchers = {}
    /\ io_failed = 0
    /\ actor = [l \in {} |-> 0]
    /\ last = NoLast
    /\ resumed = [l \in Logins |-> FALSE]
    /\ prev_live = [l \in Logins |-> NoStream]
    /\ disk = NoDisk
    /\ logins = Logins
    /\ poll = NoPoll
    /\ identity = authorize(0, BootTime, ShortLived)
    /\ req = NoReq
    /\ games_cache = NoCache
    /\ lookup = NoLookup
    /\ duration = NoDuration

\* get_streams_by_login answering with no stream once the channel is offline
FetchQuiet ==
    /\ Fetch
    /\ now >= OfflineFrom => poll'.batch = {}

\* try_join!(refresh_auth, sleep(10 s)) with refresh_auth returning Ok
SleepQuiet ==
    /\ pc = "send" /\ pending = <<>>
    /\ \A k \in DOMAIN actor : Idle(actor[k])
    /\ now + PollInterval <= QuietEnd
    /\ identity' = refresh_auth(identity, now)
    /\ now' = now + PollInterval
    /\ pc' = "retain"
    /\ poll' = NoPoll
    /\ UNCHANGED <<disk, duration, req, games_cache, lookup, logins, config, db, pending, watchers, actor, io_failed, last, resumed, prev_live>>

\* recv() and watcher.update(event) with every lookup answered
ActorHandleOk(l) ==
    /\ ActorHandle(l)
    /\ last'.state # "Err"
    /\ last'.asked \in {"NoLookup", "Found"}

\* the loop of main and the loop of a task
MainStep == LoadCache \/ Retain \/ FetchQuiet \/ Push \/ PushNew \/ NoPush \/ SleepQuiet
TaskStep(l) == ActorSkip(l) \/ ActorHandleOk(l) \/ ActorSave(l) \/ ActorDelete(l)

QuietNext ==
    \/ LoadCache
    \/ Retain
    \/ FetchQuiet
    \/ Push
    \/ PushNew
    \/ NoPush
    \/ SleepQuiet
    \/ \E l \in Logins : ActorSkip(l)
    \/ \E l \in Logins : ActorHandleOk(l)
    \/ \E l \in Logins : ActorSave(l)
    \/ \E l \in Logins : ActorDelete(l)

\* the runtime keeps scheduling main and every spawned task
QuietSpec ==
    /\ QuietInit /\ [][QuietNext]_vars
    /\ WF_vars(MainStep)
    /\ \A l \in Logins : WF_vars(TaskStep(l))

(***************************************************************************)
(* Properties.  `last` is the record of the latest event a task took from   *)
(* its queue: the watcher before (pre) and after (post), the outcome, the   *)
(* notifications emitted (notes) and the clock reading (at).                *)
(***************************************************************************)
Handled == last.state \notin {"None", "Skipped"}
HandledLive == Handled /\ last.event.kind = "Live"
HandledOffline == Handled /\ last.event.kind = "Offline"
\* the category lookup, when made, did not end in a propagated error
LookupAnswered == last.asked \in {"NoLookup", "Found", "NotFound", "Deserialize"}
LastOf(segments) == segments[Len(segments)]
IsPrefix(a, b) == Len(a) <= Len(b) /\ SubSeq(b, 1, Len(a)) = a
AppendedOne == Len(last.post.segments) = Len(last.pre.segments) + 1
               /\ IsPrefix(last.pre.segments, last.post.segments)
\* the category the lookup of this event's category id yields
LookedUp == IF last.event.stream.game_id # "" /\ last.asked = "Found"
            THEN GameOf(last.event.stream.game_id) ELSE EmptyGame
Notes(event, game) ==
    IF event \in config.enabled_events THEN <<Notification(event, game, <<>>)>> ELSE <<>>

\* C1: on a watcher with Segments, an Observed-Live with the tracked broadcast
\* id and the category id of the previously handled Observed-Live appends no
\* Segment and emits no notification, whatever the earlier lookup answered
C1_RepeatedLiveIsNoOp ==
    (/\ HandledLive
     /\ last.pre.segments # <<>>
     /\ last.prev_live # NoStream
     /\ last.event.stream.id = last.pre.stream_id
     /\ last.event.stream.game_id = last.prev_live.game_id)
    => (last.post.segments = last.pre.segments /\ last.notes = <<>>)

\* C2: an Observed-Live handled on a watcher without Segments (no propagated
\* lookup error) records start time, channel id and broadcast id of the
\* snapshot, leaves exactly one Segment at offset 0 with the looked-up
\* category, returns Updated and emits one 'live' notification, none when
\* the live event is disabled
C2_GoLive ==
    (HandledLive /\ last.pre.segments = <<>> /\ LookupAnswered)
    => (/\ last.post.start_timestamp = last.event.stream.started_at
        /\ last.post.user_id = last.event.stream.user_id
        /\ last.post.stream_id = last.event.stream.id
        /\ Len(last.post.segments) = 1
        /\ last.post.segments[1].position = 0
        /\ last.post.segments[1].game = LookedUp
        /\ last.state = "Updated"
        /\ last.notes = Notes("live", LookedUp))
C2_Witness ==
    /\ HandledLive /\ last.pre.segments = <<>> /\ last.asked = "Found"
    /\ Len(last.notes) = 1
    /\ last.pre.start_timestamp # last.event.stream.started_at

\* C3: an Observed-Live handled on a watcher with Segments whose category id
\* differs from the last Segment's (no propagated lookup error) appends
\* exactly one Segment and emits exactly one 'update' notification naming the
\* new category, none when the update event is disabled, whether or not the
\* broadcast id changed too
C3_CategoryChange ==
    (/\ HandledLive /\ last.pre.segments # <<>> /\ LookupAnswered
     /\ last.event.stream.game_id # LastOf(last.pre.segments).game.id)
    => (/\ AppendedOne
        /\ LastOf(last.post.segments).game = LookedUp
        /\ last.notes = Notes("update", LookedUp))
C3_Witness ==
    /\ HandledLive /\ last.pre.segments # <<>> /\ LookupAnswered
    /\ last.event.stream.game_id # LastOf(last.pre.segments).game.id
    /\ last.event.stream.id # last.pre.stream_id
    /\ last.pre.offline_timestamp # None
    /\ Len(last.notes) = 1

\* C4: an Observed-Live with a new broadcast id and the category of the last
\* Segment (no propagated lookup error) appends one Segment at offset 0, sets
\* the tracked broadcast id, returns Updated and emits no notification
C4_BroadcastChange ==
    (/\ HandledLive /\ last.pre.segments # <<>> /\ LookupAnswered
     /\ last.event.stream.id # last.pre.stream_id
     /\ last.event.stream.game_id = LastOf(last.pre.segments).game.id)
    => (/\ AppendedOne
        /\ LastOf(last.post.segments).position = 0
        /\ last.post.stream_id = last.event.stream.id
        /\ last.state = "Updated"
        /\ last.notes = <<>>)
C4_Witness ==
    /\ HandledLive /\ last.pre.segments # <<>> /\ last.asked = "Found"
    /\ last.event.stream.id # last.pre.stream_id
    /\ last.event.stream.game_id = LastOf(last.pre.segments).game.id
    /\ last.at > last.event.stream.started_at
    /\ "update" \in config.enabled_events

\* C5: an Observed-Offline handled in Live sets the offline deadline to
\* now + 60 x grace-period-minutes, leaves Segments, broadcast id and session
\* start alone and emits no notification
C5_FirstOffline ==
    (HandledOffline /\ last.pre.segments # <<>> /\ last.pre.offline_timestamp = None)
    => (/\ last.post.offline_timestamp = Some(last.at + 60 * config.offline_grace_period)
        /\ last.post.segments = last.pre.segments
        /\ last.post.stream_id = last.pre.stream_id
        /\ last.post.start_timestamp = last.pre.start_timestamp
        /\ last.notes = <<>>)
C5_Witness ==
    /\ HandledOffline /\ last.pre.segments # <<>> /\ last.pre.offline_timestamp = None
    /\ config.offline_grace_period = DefaultGracePeriod
    /\ "vod" \in config.enabled_events

\* C6: an Observed-Live handled in GracePeriod before the deadline does not
\* end the session: the Segments stay, the deadline is cleared; and the next
\* Observed-Offline starts a fresh grace period with a new deadline
C6_LiveCancelsGrace ==
    /\ (/\ HandledLive /\ last.pre.segments # <<>>
        /\ last.pre.offline_timestamp # None
        /\ last.at < Unwrap(last.pre.offline_timestamp))
       => (/\ last.state # "Ended"
           /\ last.post.segments # <<>>
           /\ IsPrefix(last.pre.segments, last.post.segments)
           /\ last.post.offline_timestamp = None)
    /\ (HandledOffline /\ last.resumed)
       => (/\ last.state = "Updated"
           /\ last.post.segments = last.pre.segments
           /\ last.post.segments # <<>>
           /\ last.post.offline_timestamp = Some(last.at + 60 * config.offline_grace_period))
C6_Witness ==
    /\ HandledOffline /\ last.resumed
    /\ config.offline_grace_period = DefaultGracePeriod

\* C7: at a 2-minute grace period, an Observed-Offline sent to a task whose
\* watcher is in GracePeriod with its deadline reached triggers Ended
C7_OfflineAfterDeadlineEnds ==
    (/\ last.state # "None" /\ last.event.kind = "Offline"
     /\ config.offline_grace_period = DefaultGracePeriod
     /\ last.pre.segments # <<>>
     /\ last.pre.offline_timestamp # None
     /\ Unwrap(last.pre.offline_timestamp) <= last.event.sent)
    => last.state = "Ended"

\* the lines of the timestamp index for a list of Segments
RECURSIVE Lines(_)
Lines(segments) ==
    IF segments = <<>> THEN "" ELSE Stamp(Head(segments)) \o "\n" \o Lines(Tail(segments))
RECURSIVE Concat(_)
Concat(fields) == IF fields = <<>> THEN "" ELSE Head(fields) \o Concat(Tail(fields))
EndedWithVod == last.state = "Ended" /\ "vod" \in config.enabled_events
Finished(l) == l \in DOMAIN actor /\ actor[l].pc \in {"delete", "done"}

\* the event that ends the session finishes its task, and a finished task
\* takes no further event
LastEventOfTask ==
    /\ [][(last' # last /\ last'.state = "Ended")
          => (last'.login \in DOMAIN actor'
              /\ actor'[last'.login].pc \in {"delete", "done"})]_vars
    /\ [][\A l \in DOMAIN actor :
            (Finished(l) /\ l \in DOMAIN actor')
            => (/\ actor'[l].pc \in {"delete", "done"}
                /\ actor'[l].watcher = actor[l].watcher
                /\ last' = last)]_vars

\* the index stops after the first k Segments: it has four fields, the fourth
\* ends in "..." and could not take entry k + 1 within the chunk limit
TruncatedAt(index, segments, k) ==
    /\ Len(index) = MaxFullChunks + 1
    /\ Concat(index) = Lines(SubSeq(segments, 1, k)) \o "..."
    /\ Len(index[Len(index)]) - Len("...") + Len(Stamp(segments[k + 1])) > ChunkLimit

\* C8 as stated: with vod enabled, the Observed-Offline that reaches Ended
\* emits exactly one VOD notification whose index has one entry per Segment
\* in segment order, clears Segments and deadline, and is the last event the
\* task handles
C8_VodIndexComplete ==
    /\ [](EndedWithVod
          => (/\ Len(last.notes) = 1
              /\ last.notes[1].event = "vod"
              /\ Concat(last.notes[1].index) = Lines(last.pre.segments)
              /\ last.post.segments = <<>>
              /\ last.post.offline_timestamp = None))
    /\ LastEventOfTask

\* C8 amended: the index has one entry per Segment in segment order unless
\* the entries overflow the fourth 1000-character field, and then it holds
\* the leading entries followed by "..."; Segments and deadline are cleared;
\* the task is finished by that event and a finished task never takes
\* another one
C8_VodOnEnded ==
    /\ [](EndedWithVod
          => (/\ Len(last.notes) = 1
              /\ last.notes[1].event = "vod"
              /\ \/ Concat(last.notes[1].index) = Lines(last.pre.segments)
                 \/ \E k \in 1..Len(last.pre.segments) - 1 :
                       TruncatedAt(last.notes[1].index, last.pre.segments, k)
              /\ last.post.segments = <<>>
              /\ last.post.offline_timestamp = None))
    /\ LastEventOfTask
C8_Witness ==
    /\ EndedWithVod
    /\ Len(last.pre.segments) = 2
    /\ Len(last.notes) = 1
    /\ Finished(last.login)
    /\ actor[last.login].pc = "done"

\* C9: when handling an event fails with a propagated error, the watcher's
\* state after the failed update equals its state before the event
C9_ErrorLeavesStateUnchanged ==
    last.state = "Err" => last.post = last.pre

\* C10: when the category lookup of an Observed-Live fails with NotFound or
\* Deserialize the transition completes: a Segment with the empty-category
\* sentinel is appended, the outcome is Updated and no error reaches the task
C10_LookupDegrades ==
    (HandledLive /\ last.asked \in {"NotFound", "Deserialize"})
    => (/\ AppendedOne
        /\ LastOf(last.post.segments).game = EmptyGame
        /\ last.state = "Updated"
        /\ last.err = "")
C10_Witness ==
    /\ HandledLive /\ last.asked = "Deserialize"
    /\ last.pre.segments # <<>>
    /\ LastOf(last.post.segments).game = EmptyGame

\* C11: every event the dispatcher enqueues for a running task is handled by
\* the watcher, in the order it was enqueued: the task takes no event from
\* its queue without handing it to StreamWatcher::update
C11_NoEventSkipped ==
    last.state # "Skipped"

\* the key a task saves under and the outcome of its save step
KeyOf(l) == to_lowercase(actor[l].watcher.user_name)
SavedOrLogged(l) ==
    \/ db' = save(db, KeyOf(l), serialize(actor[l].watcher))
    \/ db' = db /\ io_failed' = io_failed + 1

\* C12: with persistence enabled, an event with outcome Updated is followed
\* by the save of the task's full state under its lowercased login, which
\* completes or fails (and is logged) before the task takes its next event
C12_SaveBeforeNextEvent ==
    [][\A l \in DOMAIN actor :
         /\ (config.cache_enabled /\ last' # last /\ last'.login = l
             /\ last'.state = "Updated")
            => (l \in DOMAIN actor' /\ actor'[l].pc = "save")
         /\ (actor[l].pc = "save" /\ l \in DOMAIN actor')
            => /\ last' # last => last'.login # l
               /\ actor'[l].watcher = actor[l].watcher
               /\ \/ actor'[l].pc = "save"
                  \/ actor'[l].pc = "recv" /\ SavedOrLogged(l)]_vars
C12_Witness ==
    /\ config.cache_enabled
    /\ last.state = "Updated"
    /\ last.login \in DOMAIN actor
    /\ actor[last.login].pc = "recv"
    /\ actor[last.login].next_update = last.at + Cooldown
    /\ KeyOf(last.login) \in DOMAIN db
    /\ db[KeyOf(last.login)] = serialize(last.post)
    /\ last.post # last.pre

C14_CrashSafeSave ==
    disk.seen # None
    => Unwrap(disk.seen) \in {disk.old, [ok |-> TRUE, err |-> "", doc |-> disk.doc]}
C14_Witness ==
    /\ disk.seen # None
    /\ part_name(disk.key) \in DOMAIN disk.files
    /\ disk.files[part_name(disk.key)].len \in 1..(DocChunks - 1)
    /\ disk.old.ok
    /\ disk.old.doc # disk.doc
    /\ Unwrap(disk.seen) = disk.old

C16_RoutedOncePerPoll ==
    (pc = "send" /\ pending = <<>>)
    => \A n \in logins :
         LET k == IF n = "Alice" THEN "alice" ELSE n
         IN  /\ k \in poll.batch => poll.routed[k] = <<"Live">> /\ k \in watchers
             /\ (k \notin poll.batch /\ k \in poll.had) => poll.routed[k] = <<"Offline">>
             /\ (k \notin poll.batch /\ k \notin poll.had)
                  => poll.routed[k] = <<>> /\ k \notin watchers /\ k \notin DOMAIN actor
C16_Witness ==
    /\ pc = "send" /\ pending = <<>>
    /\ "alice" \in poll.batch /\ "alice" \notin poll.had
    /\ poll.routed["alice"] = <<"Live">>
    /\ actor["alice"].queue # <<>>
    /\ actor["alice"].queue[1].kind = "Live"
    /\ last.state = "Ended"

\* C17: no Live is lost in a task that has ended: the dispatcher never
\* pushes a Live on a Sender whose task has closed its receiver, and no task
\* closes its receiver while a Live is waiting in its queue
C17_NoLiveLost ==
    /\ \A k \in DOMAIN poll.routed :
         \A i \in DOMAIN poll.routed[k] : poll.routed[k][i] # "DroppedLive"
    /\ \A k \in DOMAIN actor :
         actor[k].closed => \A i \in DOMAIN actor[k].queue : actor[k].queue[i].kind # "Live"

C19_FetchFailureSurvived == [][pc = "fetch" => pc' # "exit"]_vars

\* C20: a refresh that is due and fails does not end the process: the poll
\* loop goes on with the identity it had
C20_RefreshFailureSurvived ==
    [][(pc = "send" /\ pending = <<>> /\ refresh_due(identity, now)) => pc' # "exit"]_vars

IsRetrySleep(x) == x.after = "retry"
\* the sleeps of a call that followed a 5xx or a connection, timeout or
\* request error
BackoffSleeps(r) == SelectSeq(r.slept, IsRetrySleep)
Min(a, b) == IF a < b THEN a ELSE b
Succeeded(r) == r.result # None /\ Unwrap(r.result).ok

\* C21: a call of make_request or authorize that succeeds after k failures,
\* each a 5xx or a connection or timeout error, has slept exactly k times,
\* the i-th time for min(2^(i-1), 16) seconds
C21_BackoffSchedule ==
    (Succeeded(req) /\ BackoffSleeps(req) = req.slept)
    => /\ Len(req.slept) = req.attempts - 1
       /\ \A i \in DOMAIN req.slept : req.slept[i].secs = Min(2 ^ (i - 1), MAX_BACKOFF)
C21_Witness ==
    /\ Succeeded(req) /\ BackoffSleeps(req) = req.slept
    /\ Len(req.slept) = 6
    /\ req.slept[5].secs = 16 /\ req.slept[6].secs = 16
    /\ req.fn = "make_request"

\* the delay a Retry-After header names, 10 seconds when it names none
NamedDelay(header) == IF header.kind = "text" /\ header.text = "5" THEN 5 ELSE 10

\* C22: every 429 that make_request receives is followed by one sleep of the
\* seconds its Retry-After header names, or of 10 seconds when the header
\* is missing or is not a number, and by a further attempt with the backoff
\* value as it was
C22_RateLimitSleepsOnce ==
    [][(req.fn = "make_request" /\ req'.attempts = req.attempts + 1
        /\ req'.last.kind = "status" /\ req'.last.status = 429)
       => /\ req'.pc = "loop"
          /\ req'.backoff = req.backoff
          /\ req'.slept = Append(req.slept, [secs |-> NamedDelay(req'.last.header),
                                             after |-> "limit"])]_vars

\* the outcomes of an attempt the loop retries
Retryable(fn, resp) ==
    \/ resp.kind = "status" /\ resp.status \div 100 = 5
    \/ resp.kind = "status" /\ resp.status = 429 /\ fn = "make_request"
    \/ resp.kind = "error" /\ resp.is \in {"connect", "timeout", "request"}

\* C23: a call makes at most 10 attempts, returns Timeout exactly when all
\* 10 ended in an outcome that is retried, and never returns on such an
\* outcome before that
C23_TenAttemptsThenTimeout ==
    /\ req.attempts <= 10
    /\ (req.result = Err("Timeout")) <=> (req.pc = "done" /\ Len(req.slept) = 10)
    /\ (req.pc = "done" /\ req.result # Err("Timeout")) => ~Retryable(req.fn, req.last)

\* C24: a status that is neither a success nor a server error nor, in
\* make_request, 429 ends the call at once with Http(status): no sleep, no
\* further attempt, and the body is not parsed
C24_OtherStatusFailsAtOnce ==
    [][(req'.attempts = req.attempts + 1 /\ req'.last.kind = "status"
        /\ req'.last.status \div 100 \notin {2, 5}
        /\ (req.fn = "make_request" => req'.last.status # 429))
       => /\ req'.pc = "done"
          /\ req'.result = ErrHttp(req'.last.status)
          /\ req'.slept = req.slept
          /\ req'.parsed = req.parsed]_vars
C24_Witness ==
    /\ req.fn = "make_request" /\ req.pc = "done"
    /\ req.last.kind = "status" /\ req.last.status = 401
    /\ req.result = ErrHttp(401)
    /\ req.attempts = 3 /\ Len(req.slept) = 2 /\ req.parsed = 0

\* C25: the identity is replaced exactly by a refresh that finds it expiring
\* less than 600 seconds from now and whose authorize succeeds; with 600
\* seconds or more left the refresh asks for nothing, cannot fail and leaves
\* the identity alone; and a task that reads the identity while the
\* dispatcher refreshes gets the identity held at that moment, whole
C25_RefreshWhenDue ==
    [][/\ identity' # identity
          => /\ pc = "send" /\ pc' = "retain"
             /\ identity.expires_at < now + 600
             /\ identity' = [access_token |-> identity.access_token + 1,
                             expires_at |-> now + LongLived]
       /\ (pc = "send" /\ pc' = "retain" /\ identity.expires_at < now + 600)
          => identity' # identity
       /\ (pc = "send" /\ pc' = "exit") => identity.expires_at < now + 600
       /\ last' # last => last'.identity \in {identity, identity'}]_vars
C25_Witness ==
    /\ identity.access_token = 1
    /\ identity.expires_at = BootTime + PollInterval + LongLived
    /\ last.state = "Updated" /\ last.calls # {}
    /\ last.identity = identity
    /\ last.event.sent < now

\* an entry of the cache none of whose entries was touched longer ago
Oldest(cache) == {e \in {cache[i] : i \in DOMAIN cache} :
                    \A i \in DOMAIN cache : e.used <= cache[i].used}
Others(cache, key) == {e \in {cache[i] : i \in DOMAIN cache} : e.key # key}

\* C26: the cache never holds more than 100 entries; a lookup that inserts
\* an id into a full cache drops exactly the entry last touched (hit or
\* inserted) the longest ago and keeps every other entry, and any other
\* lookup drops nothing
C26_LeastRecentlyUsedEvicted ==
    [][/\ Len(games_cache) <= 100 /\ Len(games_cache') <= 100
       /\ Cardinality(Keys(games_cache')) = Len(games_cache')
       /\ (lookup'.requested /\ Unwrap(lookup'.result).ok /\ Len(games_cache) = 100)
          => \E victim \in Oldest(games_cache) :
               /\ victim.key \notin Keys(games_cache')
               /\ Others(games_cache', lookup'.id) = Others(games_cache, victim.key)
               /\ lookup'.id \in Keys(games_cache')
       /\ ~(lookup'.requested /\ Unwrap(lookup'.result).ok /\ Len(games_cache) = 100)
          => Keys(games_cache) \subseteq Keys(games_cache')]_vars
C26_Witness ==
    /\ Len(games_cache) = 100
    /\ lookup.n = 2 /\ lookup.requested /\ lookup.id = "101"
    /\ games_cache[1].key = "101" /\ games_cache[2].key = "100"
    /\ "99" \notin Keys(games_cache)

\* C27: a lookup of the empty id returns the "no category" sentinel, issues
\* no request and leaves the cache as it was, entries and order; no entry is
\* ever keyed by the empty id
C27_EmptyIdBypassesCache ==
    [][/\ "" \notin Keys(games_cache) /\ "" \notin Keys(games_cache')
       /\ (lookup' # lookup /\ lookup'.id = "")
          => /\ lookup'.result = OkGame([id |-> "", name |-> "No Category"])
             /\ ~lookup'.requested
             /\ games_cache' = games_cache]_vars
C27_Witness ==
    /\ lookup.n = 2 /\ lookup.id = "" /\ ~lookup.requested
    /\ Unwrap(lookup.result).game = EmptyGame
    /\ Len(games_cache) = 100 /\ games_cache[1].key = "100"

\* the dispatcher is about to push an event to the task k
Sending(k) == pc = "send" /\ pending # <<>> /\ Head(pending).name = k

\* C28: a queue never holds more than 2 events; it grows only by the event
\* the dispatcher is pushing and shrinks only by the event its task takes;
\* and while it is full and open the dispatcher's push waits, with every
\* queued event left in place
C28_BoundedQueue ==
    [][\A k \in DOMAIN actor :
         /\ Len(actor[k].queue) <= 2
         /\ k \notin DOMAIN actor' => actor[k].closed
         /\ k \in DOMAIN actor'
            => /\ Len(actor'[k].queue) <= 2
               /\ \/ actor'[k].queue = actor[k].queue
                  \/ /\ actor[k].queue # <<>>
                     /\ actor'[k].queue = Tail(actor[k].queue)
                     /\ last' # last /\ last'.login = k /\ last'.event = Head(actor[k].queue)
                  \/ /\ Sending(k) /\ pending' = Tail(pending)
                     /\ actor'[k].queue = Append(actor[k].queue, Head(pending).event)
               /\ (Sending(k) /\ Len(actor[k].queue) = 2 /\ ~actor[k].closed)
                  => /\ pending' = pending
                     /\ actor'[k].queue \in {actor[k].queue, Tail(actor[k].queue)}]_vars
C28_Witness ==
    /\ "alice" \in DOMAIN actor
    /\ Len(actor["alice"].queue) = 2 /\ ~actor["alice"].closed
    /\ Sending("alice")
    /\ actor["alice"].queue[1].sent < actor["alice"].queue[2].sent
    /\ actor["alice"].queue[2].sent < Head(pending).event.sent

\* the latest event taken was an Observed-Offline handled by a watcher in
\* its grace period
OfflineInGrace ==
    /\ HandledOffline
    /\ last.pre.segments # <<>>
    /\ last.pre.offline_timestamp # None

\* C29: with the vod event type disabled, an Observed-Offline handled at or
\* after the deadline returns Ended with the Segments and the deadline
\* cleared, no notification and no upstream request, and the task goes on to
\* finish
C29_SilentEnd ==
    [][(last' # last /\ OfflineInGrace' /\ "vod" \notin config.enabled_events
        /\ Unwrap(last'.pre.offline_timestamp) <= last'.at)
       => /\ last'.state = "Ended"
          /\ last'.post.segments = <<>> /\ last'.post.offline_timestamp = None
          /\ last'.notes = <<>> /\ last'.calls = {}
          /\ actor'[last'.login].pc = "delete"]_vars
C29_Witness ==
    /\ OfflineInGrace /\ "vod" \notin config.enabled_events
    /\ last.state = "Ended"
    /\ Len(last.pre.segments) = SeedSegs
    /\ Finished(last.login)
    /\ last.notes = <<>>

\* C30: an Observed-Offline handled by a watcher in its grace period before
\* the deadline changes nothing, emits nothing and is reported as Unchanged
C30_OfflineInGraceIsNoOp ==
    (OfflineInGrace /\ last.at < Unwrap(last.pre.offline_timestamp))
    => /\ last.post = last.pre
       /\ last.notes = <<>>
       /\ last.state = "Unchanged"

\* the number a digit string denotes and the seconds a token list denotes
RECURSIVE ValueOf(_)
ValueOf(digits) ==
    IF digits = <<>> THEN Wide(0, 0)
    ELSE wide_add(wide_mul(ValueOf(SubSeq(digits, 1, Len(digits) - 1)), 10),
                  Wide(0, DigitValue(digits[Len(digits)])))
RECURSIVE TotalSeconds(_)
TotalSeconds(tokens) ==
    IF tokens = <<>> THEN Wide(0, 0)
    ELSE LET t == Head(tokens)
         IN  wide_add(wide_mul(ValueOf(t.num),
                               CASE t.unit = "h" -> 3600 [] t.unit = "m" -> 60 [] OTHER -> 1),
                      TotalSeconds(Tail(tokens)))
\* the text is digits, h, two digits, m, two digits, s; the three numbers
\* are hours, minutes below 60 and seconds below 60 that add up to n
Shown(text, n) ==
    LET len == Len(text)
    IN  /\ len >= 9
        /\ text[len] = "s" /\ text[len - 3] = "m" /\ text[len - 6] = "h"
        /\ \A i \in (1..len) \ {len, len - 3, len - 6} : IsDigit(text[i])
        /\ LET hours == ValueOf(SubSeq(text, 1, len - 7))
               minutes == ValueOf(SubSeq(text, len - 5, len - 4))
               seconds == ValueOf(SubSeq(text, len - 2, len - 1))
           IN  /\ minutes.lo < 60 /\ seconds.lo < 60
               /\ wide_add(wide_mul(hours, 3600), wide_add(wide_mul(minutes, 60), seconds)) = n
\* no number and no total of the string leaves 32 bits
InRange(tokens) ==
    /\ fits_u32(TotalSeconds(tokens))
    /\ \A i \in 1..Len(tokens) : fits_u32(wide_mul(ValueOf(tokens[i].num), 3600))

\* C31: a string of <number><unit> tokens parses to the sum of hours x 3600,
\* minutes x 60 and seconds over its tokens; n seconds are displayed as
\* hours, minutes and seconds, each of at least two digits, minutes and
\* seconds below 60, that add up to n
C31_DurationParsedAndShown ==
    /\ duration.op = "deserialize" => duration.result = Some(TotalSeconds(duration.tokens))
    /\ duration.op = "display" => Shown(duration.text, duration.secs)

\* the same for the strings whose numbers and totals stay inside 32 bits
C31_InRange ==
    /\ (duration.op = "deserialize" /\ InRange(duration.tokens))
       => duration.result = Some(TotalSeconds(duration.tokens))
    /\ duration.op = "display" => Shown(duration.text, duration.secs)

\* the later of two clock readings
Later(a, b) == IF a >= b THEN a ELSE b

\* C32: the interval sleep of an iteration runs while its batch fetch runs,
\* and the next iteration starts when both are over: 10 seconds after the
\* fetch was issued, or when the fetch is answered if that is later
C32_FetchOverlapsSleep ==
    [][(pc = "send" /\ pc' = "retain")
       => now' = Later(poll.began + PollInterval, poll.fetched)]_vars

\* C33: a watcher, in memory or in a persisted record, carries an offline
\* deadline only if its segment list is not empty
C33_DeadlineImpliesSegments ==
    /\ \A k \in DOMAIN actor :
         actor[k].watcher.offline_timestamp # None => actor[k].watcher.segments # <<>>
    /\ \A k \in DOMAIN db :
         "offline_timestamp" \in DOMAIN db[k] => db[k].segments # <<>>

\* a watcher whose first Observed-Offline set the deadline, and whose saved
\* record holds it
C33_Witness ==
    /\ "alice" \in DOMAIN actor /\ "alice" \in DOMAIN db
    /\ actor["alice"].watcher.offline_timestamp # None
    /\ actor["alice"].watcher.segments # <<>>
    /\ "offline_timestamp" \in DOMAIN db["alice"]
    /\ db["alice"] = serialize(actor["alice"].watcher)
    /\ last.login = "alice" /\ last.event.kind = "Offline" /\ last.state = "Updated"

\* the number of leading entries of segs that the fields hold, each field a
\* whole number of entries and at least one; -1 when they do not
RECURSIVE WholeFields(_, _)
WholeFields(fields, segs) ==
    IF fields = <<>> THEN 0
    ELSE LET js == {j \in 1..Len(segs) : Head(fields) = Lines(SubSeq(segs, 1, j))}
         IN  IF js = {} THEN -1
             ELSE LET j == CHOOSE x \in js : TRUE
                      rest == WholeFields(Tail(fields), SubSeq(segs, j + 1, Len(segs)))
                  IN  IF rest = -1 THEN -1 ELSE j + rest

\* C34: the index of a VOD notification has at most 4 fields; they hold the
\* entries in segment order, each once, and either all of them, or the
\* leading ones with the 4th field ending in "..." because the next entry
\* would not fit; a field that is not truncated has at most 1000 characters
\* and its last line break
C34_IndexInFourFields ==
    (EndedWithVod /\ Len(last.notes) = 1)
    => LET index == last.notes[1].index
           segs == last.pre.segments
       IN  /\ Len(index) \in 1..(MaxFullChunks + 1)
           /\ \/ /\ WholeFields(index, segs) = Len(segs)
                 /\ \A i \in 1..Len(index) : Len(index[i]) <= ChunkLimit + 1
              \/ /\ Len(index) = MaxFullChunks + 1
                 /\ \A i \in 1..MaxFullChunks : Len(index[i]) <= ChunkLimit + 1
                 /\ LET held == WholeFields(SubSeq(index, 1, MaxFullChunks), segs)
                    IN  /\ held # -1
                        /\ \E k \in held..(Len(segs) - 1) :
                             LET kept == Lines(SubSeq(segs, held + 1, k))
                             IN  /\ index[MaxFullChunks + 1] = kept \o "..."
                                 /\ Len(kept) + Len(Stamp(segs[k + 1])) > ChunkLimit

\* a session that fills four fields and is listed whole, and one whose
\* index is cut short
C34_WitnessWhole ==
    /\ EndedWithVod /\ Len(last.notes) = 1
    /\ Len(last.notes[1].index) = MaxFullChunks + 1
    /\ WholeFields(last.notes[1].index, last.pre.segments) = Len(last.pre.segments)
C34_Witness ==
    /\ EndedWithVod /\ Len(last.notes) = 1
    /\ Len(last.notes[1].index) = MaxFullChunks + 1
    /\ WholeFields(last.notes[1].index, last.pre.segments) = -1

\* the step handles an Observed-Offline that empties the segment list of its
\* watcher
ClearsByOffline ==
    /\ last' # last /\ last'.state \notin {"None", "Skipped"}
    /\ last'.event.kind = "Offline"
    /\ last'.pre.segments # <<>> /\ last'.post.segments = <<>>
\* what C35 asks of a step
EndsAndDeletes ==
    /\ ClearsByOffline
       => /\ last'.state = "Ended"
          /\ actor'[last'.login].pc = "delete"
    /\ \A k \in DOMAIN actor :
         (actor[k].pc = "delete" /\ k \in DOMAIN actor' /\ actor'[k].pc # "delete")
         => /\ actor'[k].pc = "done" /\ actor'[k].closed
            /\ KeyOf(k) \notin DOMAIN db' \/ io_failed' = io_failed + 1

\* C35: an Observed-Offline that clears the segment list returns Ended and
\* takes the task out of its loop with the list cleared; the task then
\* deletes its record (or logs that the store failed) and closes, so no task
\* goes on running with a list cleared by an Observed-Offline while its
\* record still holds the old Segments
C35_ClearedMeansEnded == [][EndsAndDeletes]_vars

\* C36: with persistence enabled and no store operation failed, the record
\* stored under the login of a task that waits for its next event is its
\* watcher as it is in memory: Segments, broadcast id, session start and
\* offline deadline
C36_RecordEqualsMemory ==
    \A k \in DOMAIN actor :
      (config.cache_enabled /\ io_failed = 0 /\ actor[k].pc = "recv" /\ actor[k].queue = <<>>)
      => /\ KeyOf(k) \in DOMAIN db
         /\ db[KeyOf(k)] = serialize(actor[k].watcher)

\* the key a task saves and deletes its record under, after the step
KeyAfter(l) == to_lowercase(actor'[l].watcher.user_name)

\* C37: no two tasks of one lowercased login are running at the same time,
\* and a task's delete never removes the record of a key while another task
\* of that key is running
C37_OneActorPerLogin ==
    [][/\ \A a, b \in DOMAIN actor' :
            (a # b /\ KeyAfter(a) = KeyAfter(b))
            => (actor'[a].pc = "done" \/ actor'[b].pc = "done")
       /\ \A k \in DOMAIN db :
            k \notin DOMAIN db'
            => \A a \in DOMAIN actor' : KeyAfter(a) = k => actor'[a].pc = "done"]_vars

\* the task that handled the last event was restored from its record and
\* has handled no Observed-Live since the start: it holds Segments although
\* no Observed-Live was handled under its login, and its record is the one
\* it was restored from (only saves after Observed-Offline touched it)
RestoredFirstLive ==
    /\ HandledLive
    /\ last.prev_live = NoStream
    /\ last.pre.segments # <<>>
    /\ to_lowercase(last.pre.user_name) \in DOMAIN db
RecordOfLast == db[to_lowercase(last.pre.user_name)]

\* C38: after a restart, the first Observed-Live a restored task handles
\* whose broadcast id is the record's tracked broadcast id and whose category
\* id is the category id of the record's last Segment leaves the task
\* unchanged: no notification is sent and no Segment is appended.  Stated on
\* the step that handles the event, before any save of its outcome.
RestoredLiveUnchanged ==
    (/\ RestoredFirstLive
     /\ RecordOfLast.segments # <<>>
     /\ last.event.stream.id = RecordOfLast.stream_id
     /\ last.event.stream.game_id = LastOf(RecordOfLast.segments).game.id)
    => /\ last.state = "Unchanged"
       /\ last.notes = <<>>
       /\ last.post.segments = RecordOfLast.segments
C38_RestoredLiveUnchanged == [][last' # last => RestoredLiveUnchanged']_vars
\* witness: a restored task handled such an Observed-Live as its first one
\* while 'live' notifications are enabled
C38_Witness ==
    /\ RestoredFirstLive
    /\ "live" \in config.enabled_events
    /\ last.event.stream.id = RecordOfLast.stream_id
    /\ last.event.stream.game_id = LastOf(RecordOfLast.segments).game.id
    /\ last.state = "Unchanged"
    /\ last.post.segments = last.pre.segments

\* a running task whose watcher is in a session
RunningLive == \E k \in DOMAIN actor : ~actor[k].closed /\ actor[k].watcher.segments # <<>>
VodNotes == {i \in DOMAIN last.notes : last.notes[i].event = "vod"}
\* the last event handled ended the session and its task is out of the map
EndedAndGone == last.state = "Ended" /\ last.login \notin watchers

\* C39 as stated: a running task in a session, with the channel offline on
\* every later poll and every call succeeding, leads to Ended with the VOD
\* notification emitted and the task out of the dispatcher's map
C39_OfflineLeadsToVod == RunningLive ~> (EndedAndGone /\ VodNotes # {})

\* C39, amended: a running task in a session, with the channel offline on
\* every later poll and every call succeeding, leads to Ended and to the task
\* out of the dispatcher's map, with one VOD notification emitted when the
\* vod event is enabled and none when it is disabled; the cooldown after an
\* Updated outcome only delays this
C39_OfflineLeadsToEnded ==
    RunningLive ~> (/\ EndedAndGone
                    /\ Cardinality(VodNotes) =
                         IF "vod" \in config.enabled_events THEN 1 ELSE 0)
\* witness: a session that began in this run ended with its VOD notification
\* after the channel went offline for good, later than its deadline because
\* of the cooldown, and the task is out of the map
C39_Witness ==
    /\ EndedAndGone /\ VodNotes # {}
    /\ last.prev_live # NoStream
    /\ last.at >= OfflineFrom
    /\ last.at > Unwrap(last.pre.offline_timestamp)

\* the last event handled was an Observed-Offline on a watcher in a session
OfflineInSession == HandledOffline /\ last.pre.segments # <<>>

\* C40: for every grace period, 0 minutes included, the first
\* Observed-Offline handled in a Live state (a session without a deadline)
\* does not reach Ended and only sets the deadline, one grace period after
\* the time it is handled; an Observed-Offline handled before the deadline
\* leaves the deadline where it is; and Ended is reached only by an
\* Observed-Offline handled at or after a deadline that was already set
C40_FirstOfflineNeverEnds ==
    /\ (OfflineInSession /\ last.pre.offline_timestamp = None)
       => /\ last.state = "Updated"
          /\ last.notes = <<>>
          /\ last.post = [last.pre EXCEPT
                            !.offline_timestamp =
                               Some(last.at + 60 * config.offline_grace_period)]
    /\ (OfflineInSession /\ last.pre.offline_timestamp # None
        /\ last.at < Unwrap(last.pre.offline_timestamp))
       => /\ last.state # "Ended"
          /\ last.post.offline_timestamp = last.pre.offline_timestamp
    /\ last.state = "Ended"
       => /\ OfflineInSession
          /\ last.pre.offline_timestamp # None
          /\ last.at >= Unwrap(last.pre.offline_timestamp)
\* witness: without a grace period, the first Observed-Offline of a session
\* that began in this run set the deadline to the time it was handled
C40_Witness ==
    /\ OfflineInSession
    /\ config.offline_grace_period = 0
    /\ last.prev_live # NoStream
    /\ last.pre.offline_timestamp = None
    /\ last.state = "Updated"
    /\ last.post.offline_timestamp = Some(last.at)

====
